---- MODULE Spec2Model ----
(***************************************************************************)
(* A model of the CycleSense preprocessing pipeline (src/preprocess.py).   *)
(*                                                                         *)
(* A ride file is a sequence of rows (records, one field per CSV column).  *)
(* An empty CSV cell / NaN is the empty tuple, a number v is <<v>>.        *)
(* The inertial columns X, Y, Z, a, b, c (and XL, YL, ZL) are treated      *)
(* alike by every line of the source that is modelled; the column X stands *)
(* for them.                                                               *)
(***************************************************************************)
EXTENDS Integers, Sequences, FiniteSets, TLC

VARIABLES
    \* equidistant_interpolate, one ride file
    file_in,        \* the rows read from the file
    time_interval,  \* the parameter time_interval
    df,             \* the data frame being rewritten
    removables,     \* the list removables (as a set: it holds no duplicates)
    incident_list,  \* the snapshot df.loc[df['incident'] > 0]
    i,              \* the for-loop's counter (0-based)
    assigned,       \* history: per incident of incident_list, the idx labelled
    misses,         \* history: number of loop iterations that dropped a row
    file_out,       \* the rows written back by to_csv
    pc_eq,          \* position in equidistant_interpolate
    \* create_buckets, one region
    window_size,    \* the parameter window_size
    slices,         \* the parameter slices
    in_memory_flag, \* the parameter in_memory_flag
    bk_dir,         \* per split, the ride files of the region directory
    bk_input,       \* history: the ride files create_buckets started from
    region_dir,     \* per split, whether the region directory exists
    split_no,       \* index of the split of the outer for loop
    file_list,      \* the files of the split still to visit
    buckets_list,   \* the list buckets_list
    buckets_dict,   \* the dictionary buckets_dict, as a set of <<key, bucket>>
    pos_counter,
    neg_counter,
    class_counts_df,\* the frame class_counts_df: column name -> <<pos, neg>>
    class_counts,   \* the ledger file class_counts.csv
    archive,        \* per split, the archive <split>/<region>.npz
    pc_bk,          \* position in create_buckets
    \* remove_invalid_rides, all splits
    iv_dir,         \* per split, the ride files of the region directory
    iv_input,       \* history: the ride files the stage started from
    iv_split,       \* index of the split of the for loop
    iv_file_list,   \* the files handed to pool.map and not yet handled
    pc_iv,          \* position in remove_invalid_rides
    \* one ride file on its way through the stages of preprocess
    pl_rows,        \* the rows of the file
    pl_exists,      \* whether the file exists
    pl_split,       \* the split whose directory holds the file
    pl_android,     \* whether the file's name ends in 'a'
    pl_done,        \* the number of stages that have handled the file
    pl_type,        \* the parameter interpolation_type, once it is read
    pl_error,       \* whether a worker has raised
    pl_raw,         \* history: whether the exported file was in timestamp order
    \* scale, over the pipeline runs on one data directory
    sc_dir,         \* per split, the ride files of the region directory
    sc_input,       \* history: the ride files the run of scale started from
    sc_file,        \* <dir>/scaler.save: <<>> when absent, else <<scaler>>
    scaler_maxabs,  \* the scaler object of the run
    sc_split,       \* index of the split of the for loop
    sc_file_list,   \* the files handed to pool.map and not yet handled
    sc_run,         \* the number of the pipeline run
    sc_found_in,    \* history: the runs that found scaler.save
    sc_fit_in,      \* history: the runs that fitted a scaler
    sc_dumps,       \* history: the number of calls of joblib.dump
    sc_first,       \* history: the first content of scaler.save
    pc_sc,          \* position in scale
    \* two runs of the stages from remove_acc_outliers to scale, on data
    \* directories with the same train files
    st_dir,         \* per run and split, the ride files of the region directory
    st_done,        \* per run, the number of stages that have returned
    st_error,       \* per run, whether a stage has raised
    st_type,        \* the parameter interpolation_type of both runs
    st_interval,    \* the parameter time_interval of both runs
    st_acc,         \* per run, the bounds of remove_acc_outliers, once computed
    st_vel,         \* per run, the bounds of remove_vel_outliers, once computed
    st_scaler,      \* per run, the scaler fitted by scale, once fitted
    \* rotate_bucket, applied again and again to one bucket
    rt_axis,        \* the parameter axis
    rt_trace,       \* history: the bucket, and the result of every call so far
    \* one stage with a statistic of the train split: remove_acc_outliers,
    \* remove_vel_outliers or scale, step by step
    br_stage,       \* the stage
    br_dir,         \* per split, the ride files of the region directory
    br_input,       \* history: the ride files the stage started from
    br_saved,       \* <dir>/scaler.save: <<>> when absent, else <<scaler>>
    br_loaded,      \* history: whether the scaler was loaded from scaler.save
    br_todo,        \* the train files the first loop has still to read
    br_l,           \* the train files read so far (the list l, the partial fits)
    br_stat,        \* <<>>, or <<the bounds or the scaler handed to pool.map>>
    br_split,       \* index of the split of the second for loop
    br_file_list,   \* the files handed to pool.map and not yet handled
    br_used,        \* history: per handled file, the value its worker was given
    pc_br,          \* position in the stage
    \* augment_data or fourier_transform on the archives of one region
    ar_stage,       \* the stage
    ar_in_memory,   \* the parameter in_memory_flag
    ar_rotation,    \* the parameter rotation_flag
    ar_gan,         \* the parameter gan_flag
    ar_fourier,     \* the parameter fourier_transform_flag
    ar_cpu,         \* mp.cpu_count()
    ar_shuffle,     \* the permutation tf.random.shuffle draws
    ar_archive,     \* per split, the archive <split>/<region>.npz
    ar_input,       \* history: the archives the stage started from
    ar_counts,      \* the ledger file class_counts.csv
    ar_split,       \* index of the split of the for loop
    ar_splits,      \* the list file_list_splits
    ar_results,     \* per shard, <<>> or <<the worker's return value>>
    ar_dict,        \* the dictionary ride_data_dict of the parent process
    ar_pos,         \* pos_counter
    ar_neg,         \* neg_counter
    ar_writes,      \* history: per split, the number of np.savez calls
    pc_ar,          \* position in the stage
    \* one train ride from the resampler to the bucketizer
    cn_interval,    \* time_interval
    cn_window,      \* window_size
    cn_slices,      \* slices
    cn_rows,        \* the rows of the ride file
    cn_done,        \* the number of stages that have returned
    cn_grid,        \* history: the timestamps equidistant_interpolate left
    cn_times,       \* history: the column timeStamp when scale read the file
    cn_buckets,     \* the buckets create_buckets made of the file
    \* the pools of the stages of preprocess that rewrite the ride files
    wr_cpu,         \* mp.cpu_count()
    wr_dir,         \* per split, the names of the ride files
    wr_stage,       \* index of the stage that runs
    wr_split,       \* index of the split of the stage's for loop
    wr_tasks,       \* the files of file_list no worker has been given yet
    wr_writing,     \* per worker of the pool, None or the file it works on
    wr_given,       \* history: per file of file_list, the workers given it
    wr_failed,      \* a worker of the pool has raised
    pc_wr           \* position in the stage

eqVars == <<file_in, time_interval, df, removables, incident_list, i,
            assigned, misses, file_out, pc_eq>>

bkVars == <<window_size, slices, in_memory_flag, bk_dir, bk_input, region_dir,
            split_no, file_list, buckets_list, buckets_dict, pos_counter,
            neg_counter, class_counts_df, class_counts, archive, pc_bk>>

ivVars == <<iv_dir, iv_input, iv_split, iv_file_list, pc_iv>>

plVars == <<pl_rows, pl_exists, pl_split, pl_android, pl_done, pl_type,
            pl_error, pl_raw>>

scVars == <<sc_dir, sc_input, sc_file, scaler_maxabs, sc_split, sc_file_list,
            sc_run, sc_found_in, sc_fit_in, sc_dumps, sc_first, pc_sc>>

stVars == <<st_dir, st_done, st_error, st_type, st_interval, st_acc, st_vel,
            st_scaler>>

rtVars == <<rt_axis, rt_trace>>

brVars == <<br_stage, br_dir, br_input, br_saved, br_loaded, br_todo, br_l,
             br_stat, br_split, br_file_list, br_used, pc_br>>

arVars == <<ar_stage, ar_in_memory, ar_rotation, ar_gan, ar_fourier, ar_cpu,
             ar_shuffle, ar_archive, ar_input, ar_counts,
             ar_split, ar_splits, ar_results, ar_dict, ar_pos,
             ar_neg, ar_writes, pc_ar>>

cnVars == <<cn_interval, cn_window, cn_slices, cn_rows, cn_done, cn_grid,
             cn_times, cn_buckets>>

wrVars == <<wr_cpu, wr_dir, wr_stage, wr_split, wr_tasks, wr_writing,
             wr_given, wr_failed, pc_wr>>

\* what an action of one stage leaves alone
notEq == <<bkVars, ivVars, plVars, scVars, stVars, rtVars, brVars, arVars,
           cnVars, wrVars>>
notBk == <<eqVars, ivVars, plVars, scVars, stVars, rtVars, brVars, arVars,
           cnVars, wrVars>>
notIv == <<eqVars, bkVars, plVars, scVars, stVars, rtVars, brVars, arVars,
           cnVars, wrVars>>
notPl == <<eqVars, bkVars, ivVars, scVars, stVars, rtVars, brVars, arVars,
           cnVars, wrVars>>
notSc == <<eqVars, bkVars, ivVars, plVars, stVars, rtVars, brVars, arVars,
           cnVars, wrVars>>
notSt == <<eqVars, bkVars, ivVars, plVars, scVars, rtVars, brVars, arVars,
           cnVars, wrVars>>
notRt == <<eqVars, bkVars, ivVars, plVars, scVars, stVars, brVars, arVars,
           cnVars, wrVars>>
notBr == <<eqVars, bkVars, ivVars, plVars, scVars, stVars, rtVars, arVars,
           cnVars, wrVars>>
notAr == <<eqVars, bkVars, ivVars, plVars, scVars, stVars, rtVars, brVars,
           cnVars, wrVars>>
notCn == <<eqVars, bkVars, ivVars, plVars, scVars, stVars, rtVars, brVars,
           arVars, wrVars>>
notWr == <<eqVars, bkVars, ivVars, plVars, scVars, stVars, rtVars, brVars,
           arVars, cnVars>>

vars == <<eqVars, bkVars, ivVars, plVars, scVars, stVars, rtVars, brVars,
          arVars, cnVars, wrVars>>

-----------------------------------------------------------------------------
(* Values and small helpers *)

NaN == <<>>
IsNaN(v) == v = <<>>
Val(x) == <<x>>
Num(v) == v[1]
Abs(x) == IF x < 0 THEN -x ELSE x
SetMax(S) == CHOOSE x \in S : \A y \in S : y <= x
SetMin(S) == CHOOSE x \in S : \A y \in S : x <= y
Range(s) == {s[k] : k \in DOMAIN s}

\* the value of a cell is > 0 (NaN > 0 is False)
Positive(v) == ~IsNaN(v) /\ Num(v) > 0

\* the elements of a finite set of integers in ascending order
RECURSIVE SetToSeq(_)
SetToSeq(S) ==
    IF S = {} THEN <<>> ELSE <<SetMin(S)>> \o SetToSeq(S \ {SetMin(S)})

\* r inserted behind every row whose timeStamp is <= its own
RECURSIVE InsertByTime(_, _)
InsertByTime(rows, r) ==
    IF rows = <<>> THEN <<r>>
    ELSE IF r.timeStamp < Head(rows).timeStamp THEN <<r>> \o rows
    ELSE <<Head(rows)>> \o InsertByTime(Tail(rows), r)

\* a stable ascending sort by timeStamp
RECURSIVE SortAscending(_)
SortAscending(rows) ==
    IF rows = <<>> THEN <<>>
    ELSE InsertByTime(SortAscending(SubSeq(rows, 1, Len(rows) - 1)), rows[Len(rows)])

Reverse(s) == [k \in 1..Len(s) |-> s[Len(s) + 1 - k]]

\* df[~df.index.duplicated(keep='first')]
RECURSIVE DropDuplicated(_, _)
DropDuplicated(rows, seen) ==
    IF rows = <<>> THEN <<>>
    ELSE IF Head(rows).timeStamp \in seen THEN DropDuplicated(Tail(rows), seen)
    ELSE <<Head(rows)>>
         \o DropDuplicated(Tail(rows), seen \cup {Head(rows).timeStamp})

Index(rows) == {rows[k].timeStamp : k \in DOMAIN rows}
Sorted(rows) ==
    \A k \in 1..(Len(rows) - 1) : rows[k].timeStamp <= rows[k + 1].timeStamp

-----------------------------------------------------------------------------
(* Timestamps: milliseconds in the files, nanoseconds in a DatetimeIndex *)

NsPerMs == 1000000

\* dt.datetime.utcfromtimestamp(x / 1000), then pd.to_datetime
ToDatetime(ms) == ms * NsPerMs
\* df.index.view(np.int64) // 10 ** 6
FromDatetime(ns) == ns \div NsPerMs

-----------------------------------------------------------------------------
(* Interpolation of one column over a frame sorted by its index *)

\* Series.interpolate(method='time'): linear in the index between two valid
\* cells, the last valid value behind the last valid cell, NaN before the
\* first one.  Values are fixed-point integers; the quotient is truncated.
interpolate_time(rows, col) ==
    LET valid == {k \in DOMAIN rows : ~IsNaN(rows[k][col])}
        cell(k) ==
            LET before == {j \in valid : j < k}
                after == {j \in valid : j > k}
            IN  IF k \in valid \/ before = {} THEN rows[k][col]
                ELSE IF after = {} THEN rows[SetMax(before)][col]
                ELSE LET a == SetMax(before)
                         b == SetMin(after)
                         xa == Num(rows[a][col])
                         xb == Num(rows[b][col])
                         ta == FromDatetime(rows[a].timeStamp)
                         tb == FromDatetime(rows[b].timeStamp)
                         t == FromDatetime(rows[k].timeStamp)
                     IN  Val(xa + ((xb - xa) * (t - ta)) \div (tb - ta))
    IN  [k \in DOMAIN rows |-> [rows[k] EXCEPT ![col] = cell(k)]]

\* Series.fillna(method='bfill'): a NaN cell takes the next valid value
fillna_bfill(rows, col) ==
    LET valid == {k \in DOMAIN rows : ~IsNaN(rows[k][col])}
        cell(k) ==
            LET after == {j \in valid : j > k}
            IN  IF k \in valid \/ after = {} THEN rows[k][col]
                ELSE rows[SetMin(after)][col]
    IN  [k \in DOMAIN rows |-> [rows[k] EXCEPT ![col] = cell(k)]]

\* (variant: a NaN cell takes the next valid value instead)
pad_from_next(rows, col) == fillna_bfill(rows, col)

\* Series.interpolate(method='pad'): a NaN cell takes the last valid value
\* before it
interpolate_pad(rows, col) ==
    LET valid == {k \in DOMAIN rows : ~IsNaN(rows[k][col])}
        cell(k) ==
            LET before == {j \in valid : j < k}
            IN  IF k \in valid \/ before = {} THEN rows[k][col]
                ELSE rows[SetMax(before)][col]
    IN  [k \in DOMAIN rows |-> [rows[k] EXCEPT ![col] = cell(k)]]

-----------------------------------------------------------------------------
(* equidistant_interpolate *)

start_time(rows, interval) == (rows[1].timeStamp \div interval) * interval
end_time(rows) == rows[Len(rows)].timeStamp
timestamps_original(rows) == Index(rows)

\* (variant: a grid that runs up to and including end_time)
timestamps_through_end(rows, interval) ==
    {t \in start_time(rows, interval)..end_time(rows) :
        (t - start_time(rows, interval)) % interval = 0}

\* np.arange(start_time, end_time, time_interval)
timestamps_new(rows, interval) ==
    {t \in start_time(rows, interval)..(end_time(rows) - 1) :
        (t - start_time(rows, interval)) % interval = 0}

timestamps_net_new(rows, interval) ==
    timestamps_new(rows, interval) \ timestamps_original(rows)

\* the original timestamps that have no equidistant timestamp, as datetimes
removables_of(rows, interval) ==
    {ToDatetime(x) : x \in timestamps_original(rows) \ timestamps_new(rows, interval)}

\* pd.DataFrame(timestamps_net_new, columns=['timeStamp']) after the concat:
\* every other column of such a row is NaN
df_net_new(rows, interval) ==
    LET ts == SetToSeq(timestamps_net_new(rows, interval))
    IN  [k \in DOMAIN ts |->
            [timeStamp |-> ts[k], lat |-> NaN, lon |-> NaN, X |-> NaN,
             incident |-> NaN]]

\* lines 292-308: concat, datetime index, drop duplicates, sort by index
eq_frame(rows, interval) ==
    LET both == rows \o df_net_new(rows, interval)
        dated == [k \in DOMAIN both |->
                    [both[k] EXCEPT !.timeStamp = ToDatetime(both[k].timeStamp)]]
    IN  SortAscending(DropDuplicated(dated, {}))

\* lines 310-325: the columns are filled in
eq_interpolated(rows, interval) ==
    fillna_bfill(fillna_bfill(interpolate_time(eq_frame(rows, interval), "X"),
                              "lat"), "lon")

\* df.loc[df['incident'] > 0]
incident_rows(frame) == SelectSeq(frame, LAMBDA r : Positive(r.incident))

\* df.index.get_indexer([target], method='nearest')[0] on a non-empty
\* increasing index, as a member of the index: pad and backfill candidates,
\* the left one only when strictly nearer or when there is no right one
\* (variant: method='pad', the candidate at or before the target)
NearestPad(index, target) ==
    LET left == {x \in index : x <= target}
    IN  IF left = {} THEN SetMax(index) ELSE SetMax(left)

\* (variant: operator.le, the earlier of two equally near candidates)
NearestTieLeft(index, target) ==
    LET left == {x \in index : x <= target}
        right == {x \in index : x >= target}
        l == IF left = {} THEN SetMax(index) ELSE SetMax(left)
        r == IF right = {} THEN SetMax(index) ELSE SetMin(right)
    IN  IF Abs(l - target) <= Abs(r - target) \/ right = {} THEN l ELSE r

get_indexer_nearest(index, target) ==
    LET left == {x \in index : x <= target}
        right == {x \in index : x >= target}
        \* an indexer of -1 reads the last element
        l == IF left = {} THEN SetMax(index) ELSE SetMax(left)
        r == IF right = {} THEN SetMax(index) ELSE SetMin(right)
    IN  IF Abs(l - target) < Abs(r - target) \/ right = {} THEN l ELSE r

\* df.at[idx, 'incident'] = 1.0
set_incident(frame, idx) ==
    [k \in DOMAIN frame |->
        IF frame[k].timeStamp = idx
        THEN [frame[k] EXCEPT !.incident = Val(1)] ELSE frame[k]]

\* df.drop(labels)
drop(frame, labels) == SelectSeq(frame, LAMBDA r : r.timeStamp \notin labels)

\* lines 349-352: timestamps back to milliseconds, incident NaN to 0
eq_written(frame) ==
    [k \in DOMAIN frame |->
        [frame[k] EXCEPT !.timeStamp = FromDatetime(frame[k].timeStamp),
                         !.incident = IF IsNaN(frame[k].incident) THEN Val(0)
                                      ELSE frame[k].incident]]

\* lines 273-327
EqRead ==
    /\ UNCHANGED notEq
    /\ pc_eq = "read"
    /\ df' = eq_interpolated(file_in, time_interval)
    /\ removables' = removables_of(file_in, time_interval)
    /\ incident_list' = incident_rows(df')
    /\ i' = 0
    /\ pc_eq' = "loop"
    /\ UNCHANGED <<file_in, time_interval, assigned, misses, file_out>>

\* the candidate of the current iteration of the while loop (line 336)
idx == get_indexer_nearest(Index(df), incident_list[i + 1].timeStamp)

\* lines 338-341: the candidate survives and is labelled
EqFound ==
    /\ UNCHANGED notEq
    /\ pc_eq = "loop" /\ i < Len(incident_list)
    /\ Index(df) # {}
    /\ idx \notin removables
    /\ df' = set_incident(df, idx)
    /\ assigned' = Append(assigned, idx)
    /\ i' = i + 1
    /\ UNCHANGED <<file_in, time_interval, removables, incident_list, misses,
                   file_out, pc_eq>>

\* (variant: line 344 left out, the dropped candidate stays in removables)
EqDropKeepsRemovable ==
    /\ UNCHANGED notEq
    /\ pc_eq = "loop" /\ i < Len(incident_list)
    /\ Index(df) # {}
    /\ idx \in removables
    /\ df' = drop(df, {idx})
    /\ misses' = misses + 1
    /\ UNCHANGED <<file_in, time_interval, removables, incident_list, i,
                   assigned, file_out, pc_eq>>

\* lines 342-344: the candidate is a removable row, the search repeats
EqDropCandidate ==
    /\ UNCHANGED notEq
    /\ pc_eq = "loop" /\ i < Len(incident_list)
    /\ Index(df) # {}
    /\ idx \in removables
    /\ df' = drop(df, {idx})
    /\ removables' = removables \ {idx}
    /\ misses' = misses + 1
    /\ UNCHANGED <<file_in, time_interval, incident_list, i, assigned,
                   file_out, pc_eq>>

\* line 336 on an empty index: get_indexer gives -1 and df.index[-1] raises
EqIndexError ==
    /\ UNCHANGED notEq
    /\ pc_eq = "loop" /\ i < Len(incident_list)
    /\ Index(df) = {}
    /\ pc_eq' = "error"
    /\ UNCHANGED <<file_in, time_interval, df, removables, incident_list, i,
                   assigned, misses, file_out>>

\* lines 347-354
EqWrite ==
    /\ UNCHANGED notEq
    /\ pc_eq = "loop" /\ i = Len(incident_list)
    /\ df' = eq_written(drop(df, removables))
    /\ file_out' = df'
    /\ pc_eq' = "done"
    /\ UNCHANGED <<file_in, time_interval, removables, incident_list, i,
                   assigned, misses>>

-----------------------------------------------------------------------------
(* Bounds and inputs of the resampler *)

MaxRows == 3
MaxTime == 5
TimeIntervals == {2, 3}
IncidentTypes == {0, 2}

\* a row at the resampler: a GPS row (its sensor cells emptied by the
\* decontaminator) or a sensor row
ResampleRow(t, c, isGps) ==
    [timeStamp |-> t,
     lat |-> IF isGps THEN Val(1) ELSE NaN,
     lon |-> IF isGps THEN Val(1) ELSE NaN,
     X |-> IF isGps THEN NaN ELSE Val(1),
     incident |-> Val(c)]

\* the files of up to n rows in timestamp order with at most one GPS row
SortedFiles(n) ==
    UNION {
        {[k \in 1..m |-> ResampleRow(ts[k], inc[k], k = gps)] :
            ts \in {f \in [1..m -> 0..MaxTime] :
                        \A k \in 1..(m - 1) : f[k] <= f[k + 1]},
            inc \in [1..m -> IncidentTypes],
            gps \in 0..m}
        : m \in 1..n}

InitEq ==
    /\ file_in \in SortedFiles(MaxRows)
    /\ time_interval \in TimeIntervals
    /\ df = <<>>
    /\ removables = {}
    /\ incident_list = <<>>
    /\ i = 0
    /\ assigned = <<>>
    /\ misses = 0
    /\ file_out = <<>>
    /\ pc_eq = "read"

\* the resampler at rest, for the specifications of the other stages
IdleEq ==
    /\ file_in = <<>>
    /\ time_interval = 0
    /\ df = <<>>
    /\ removables = {}
    /\ incident_list = <<>>
    /\ i = 0
    /\ assigned = <<>>
    /\ misses = 0
    /\ file_out = <<>>
    /\ pc_eq = "idle"

NextEq == EqRead \/ EqFound \/ EqDropCandidate \/ EqIndexError \/ EqWrite


-----------------------------------------------------------------------------
(* create_buckets *)

Splits == <<"train", "test", "val">>

\* rows cut off at either end of a ride (arr[60:-60, :])
Trim == 60

\* np.genfromtxt(file, delimiter=',', skip_header=True) of a ride file with
\* n rows: row r (0-based) holds its feature cells, named by <<file, r>>,
\* and its incident cell
genfromtxt(f) ==
    [k \in 1..f.n |->
        [X |-> <<f.name, k - 1>>,
         incident |-> IF (k - 1) \in f.inc THEN f.flag ELSE 0]]

\* a file of fewer than two rows is read as a one-dimensional array
one_dimensional(f) == f.n < 2

\* a[start:stop] for start >= 0 > stop
slice_rows(a, start, stop) ==
    LET lo == IF start < Len(a) THEN start ELSE Len(a)
        hi == IF Len(a) + stop > 0 THEN Len(a) + stop ELSE 0
    IN  SubSeq(a, lo + 1, hi)

\* (variant: only the head of the ride is cut off)
trimmed_head_only(a) == SubSeq(a, Trim + 1, Len(a))

\* line 572
trimmed(a) == slice_rows(a, Trim, -Trim)

\* line 578
usable_range(a, w, s) == (Len(a) \div (w * s)) * w * s

\* (variant: reshape to (buckets, window_size, slices, channels) and no
\* transpose)
reshape_window_major(a, w, s) ==
    LET range == usable_range(a, w, s)
        flat == SubSeq(a, 1, IF range < Len(a) THEN range ELSE Len(a))
    IN  [b \in 1..(range \div (w * s)) |->
            [wi \in 0..(w - 1) |->
                [si \in 0..(s - 1) |->
                    flat[(b - 1) * s * w + wi * s + si + 1]]]]

\* lines 580-581: reshape to (buckets, slices, window_size, channels), then
\* swap the slice and the window axis.  Bucket b, cell [wi][si] (0-based)
reshape_transpose(a, w, s) ==
    LET range == usable_range(a, w, s)
        flat == SubSeq(a, 1, IF range < Len(a) THEN range ELSE Len(a))
    IN  [b \in 1..(range \div (w * s)) |->
            [wi \in 0..(w - 1) |->
                [si \in 0..(s - 1) |->
                    flat[(b - 1) * s * w + si * w + wi + 1]]]]

Cells(bucket) ==
    {bucket[wi][si] : wi \in DOMAIN bucket, si \in DOMAIN bucket[0]}

\* lines 583-584: np.any over the label channel of the bucket
any_label(bucket) == \E c \in Cells(bucket) : c.incident # 0

\* (variant: the label channel is left as read)
label_untouched(bucket, label) == bucket

\* bucket[:, :, -1] = labels[i]
broadcast_label(bucket, label) ==
    [wi \in DOMAIN bucket |->
        [si \in DOMAIN bucket[wi] |->
            [bucket[wi][si] EXCEPT !.incident = IF label THEN 1 ELSE 0]]]

\* lines 599-603: the key of bucket i (0-based) of a file
dict_name(name, no, label) == [file |-> name, no |-> no, incident |-> label]

\* the labelled buckets of one file (lines 572-596)
file_buckets(f, w, s) ==
    LET arr == reshape_transpose(trimmed(genfromtxt(f)), w, s)
    IN  [b \in DOMAIN arr |-> broadcast_label(arr[b], any_label(arr[b]))]

file_labels(f, w, s) ==
    LET arr == reshape_transpose(trimmed(genfromtxt(f)), w, s)
    IN  [b \in DOMAIN arr |-> any_label(arr[b])]

CountTrue(labels) == Cardinality({b \in DOMAIN labels : labels[b]})

\* lines 595-605: buckets_dict.update({dict_name: bucket}) for every bucket
\* of a file; a key met again takes the new bucket
dict_update_all(d, name, buckets) ==
    LET key(b) == dict_name(name, b - 1, buckets[b][0][0].incident = 1)
        keys == {key(b) : b \in DOMAIN buckets}
    IN  {e \in d : e[1] \notin keys}
        \cup {<<key(b), buckets[b]>> : b \in DOMAIN buckets}

split == Splits[split_no]
column(sp) == <<sp, "region">>

\* lines 558-564
BkStartSplit ==
    /\ UNCHANGED notBk
    /\ pc_bk = "split"
    /\ file_list' = bk_dir[split]
    /\ buckets_dict' = {}
    /\ buckets_list' = <<>>
    /\ pos_counter' = 0
    /\ neg_counter' = 0
    /\ pc_bk' = "files"
    /\ UNCHANGED <<window_size, slices, in_memory_flag, bk_dir, bk_input,
                   region_dir, split_no, class_counts_df, class_counts, archive>>

\* (variant: line 610 left out, the ride file stays in the directory)
BkFileKept ==
    /\ UNCHANGED notBk
    /\ pc_bk = "files" /\ file_list # <<>>
    /\ ~one_dimensional(Head(file_list))
    /\ LET f == Head(file_list)
           buckets == file_buckets(f, window_size, slices)
           labels == file_labels(f, window_size, slices)
       IN  /\ pos_counter' = pos_counter + CountTrue(labels)
           /\ neg_counter' = neg_counter + Len(labels) - CountTrue(labels)
           /\ IF in_memory_flag
              THEN /\ buckets_list' = buckets_list \o buckets
                   /\ UNCHANGED buckets_dict
              ELSE /\ buckets_dict' = dict_update_all(buckets_dict, f.name, buckets)
                   /\ UNCHANGED buckets_list
    /\ file_list' = Tail(file_list)
    /\ UNCHANGED <<window_size, slices, in_memory_flag, bk_dir, bk_input,
                   region_dir, split_no, class_counts_df, class_counts,
                   archive, pc_bk>>

\* lines 566-610 for one file read as a two-dimensional array
BkFile ==
    /\ UNCHANGED notBk
    /\ pc_bk = "files" /\ file_list # <<>>
    /\ ~one_dimensional(Head(file_list))
    /\ LET f == Head(file_list)
           buckets == file_buckets(f, window_size, slices)
           labels == file_labels(f, window_size, slices)
       IN  /\ pos_counter' = pos_counter + CountTrue(labels)
           /\ neg_counter' = neg_counter + Len(labels) - CountTrue(labels)
           /\ IF in_memory_flag
              THEN /\ buckets_list' = buckets_list \o buckets
                   /\ UNCHANGED buckets_dict
              ELSE /\ buckets_dict' = dict_update_all(buckets_dict, f.name, buckets)
                   /\ UNCHANGED buckets_list
           \* os.remove(file)
           /\ bk_dir' = [bk_dir EXCEPT ![split] = SelectSeq(@, LAMBDA g : g # f)]
    /\ file_list' = Tail(file_list)
    /\ UNCHANGED <<window_size, slices, in_memory_flag, bk_input, region_dir,
                   split_no, class_counts_df, class_counts, archive, pc_bk>>

\* lines 571-574: indexing a one-dimensional array with [60:-60, :] raises
BkRaise ==
    /\ UNCHANGED notBk
    /\ pc_bk = "files" /\ file_list # <<>>
    /\ one_dimensional(Head(file_list))
    /\ pc_bk' = "error"
    /\ UNCHANGED <<window_size, slices, in_memory_flag, bk_dir, bk_input,
                   region_dir, split_no, file_list, buckets_list, buckets_dict,
                   pos_counter, neg_counter, class_counts_df, class_counts,
                   archive>>

\* lines 612-623
BkFinishSplit ==
    /\ UNCHANGED notBk
    /\ pc_bk = "files" /\ file_list = <<>>
    /\ class_counts_df' =
        [c \in DOMAIN class_counts_df \cup {column(split)} |->
            IF c = column(split) THEN <<pos_counter, neg_counter>>
            ELSE class_counts_df[c]]
    /\ class_counts' = class_counts_df'
    /\ region_dir' = [region_dir EXCEPT ![split] = FALSE]
    /\ archive' = [archive EXCEPT ![split] =
                     IF in_memory_flag THEN [arr_0 |-> buckets_list]
                     ELSE [files |-> buckets_dict]]
    /\ IF split_no < Len(Splits)
       THEN split_no' = split_no + 1 /\ pc_bk' = "split"
       ELSE split_no' = split_no /\ pc_bk' = "done"
    /\ UNCHANGED <<window_size, slices, in_memory_flag, bk_dir, bk_input,
                   file_list, buckets_list, buckets_dict, pos_counter,
                   neg_counter>>

-----------------------------------------------------------------------------
(* Bounds and inputs of the bucketizer *)

ExtraRows == 4
MaxIncidents == 1
WindowSizes == {1, 2}
SliceCounts == {1, 2}

\* the numbers of rows of a ride file
RowCounts == {1, 2} \cup {2 * Trim + k : k \in 0..ExtraRows}

\* rows that may carry an incident: the last row cut off at the head and
\* the first rows kept
IncidentPositions(n) ==
    {r \in {Trim - 1, Trim, Trim + 1, Trim + 3} : r < n}

\* the ride files under study
Rides(name) ==
    {[name |-> name, n |-> n, inc |-> inc, flag |-> flag] :
        n \in RowCounts, flag \in {1},
        inc \in {{}}}
    \cup
    {[name |-> name, n |-> n, inc |-> inc, flag |-> flag] :
        n \in RowCounts \ {1, 2}, flag \in {1, 2},
        inc \in {c \in SUBSET IncidentPositions(2 * Trim) :
                    c # {} /\ Cardinality(c) <= MaxIncidents}}

\* a second ride of a split: one bucket, labelled 1
Companion(name, w, s) ==
    [name |-> name, n |-> 2 * Trim + w * s, inc |-> {Trim}, flag |-> 1]

\* the directories: one ride under study in one split; no split, the train
\* split or every split with a second ride, before or behind the first
BucketDirs(w, s) ==
    {[sp \in Range(Splits) |->
        LET own == IF sp = at THEN <<ride>> ELSE <<>>
            other == IF sp \in with THEN <<Companion("VM2_c", w, s)>> ELSE <<>>
        IN  IF first THEN own \o other ELSE other \o own] :
        at \in Range(Splits), ride \in Rides("VM2_r"),
        with \in {{}, {"train"}, Range(Splits)},
        first \in BOOLEAN}

\* the documented scenario: one train ride of 500 rows, window_size 5 and
\* slices 20
ScenarioRows == 500
ScenarioWindow == 5
ScenarioSlices == 20

ScenarioDir ==
    [sp \in Range(Splits) |->
        IF sp = "train"
        THEN <<[name |-> "VM2_r", n |-> ScenarioRows, inc |-> {Trim}, flag |-> 1]>>
        ELSE <<>>]

InitBk ==
    /\ in_memory_flag \in BOOLEAN
    /\ \/ /\ window_size \in WindowSizes
          /\ slices \in SliceCounts
          /\ bk_dir \in BucketDirs(window_size, slices)
       \/ /\ window_size = ScenarioWindow
          /\ slices = ScenarioSlices
          /\ bk_dir = ScenarioDir
    /\ bk_input = bk_dir
    /\ region_dir = [sp \in Range(Splits) |-> TRUE]
    /\ split_no = 1
    /\ file_list = <<>>
    /\ buckets_list = <<>>
    /\ buckets_dict = {}
    /\ pos_counter = 0
    /\ neg_counter = 0
    /\ class_counts_df = <<>>
    /\ class_counts = <<>>
    /\ archive = [sp \in Range(Splits) |-> <<>>]
    /\ pc_bk = "split"

\* the bucketizer at rest, for the specifications of the other stages
IdleBk ==
    /\ window_size = 0
    /\ slices = 0
    /\ in_memory_flag = FALSE
    /\ bk_dir = <<>>
    /\ bk_input = <<>>
    /\ region_dir = <<>>
    /\ split_no = 0
    /\ file_list = <<>>
    /\ buckets_list = <<>>
    /\ buckets_dict = {}
    /\ pos_counter = 0
    /\ neg_counter = 0
    /\ class_counts_df = <<>>
    /\ class_counts = <<>>
    /\ archive = <<>>
    /\ pc_bk = "idle"

NextBk == BkStartSplit \/ BkFile \/ BkRaise \/ BkFinishSplit


-----
(* Claims about equidistant_interpolate *)

\* the grid and the removable timestamps of the input file, as datetimes
GridDt == {ToDatetime(t) : t \in timestamps_new(file_in, time_interval)}
Removables0 == removables_of(file_in, time_interval)
Dist(a, b) == Abs(a - b)

\* the timestamps labelled for the incident of input row k: those labelled
\* for an incident of incident_list that has row k's timestamp
AssignedTo(k) ==
    {assigned[j] : j \in {j \in DOMAIN assigned :
        incident_list[j].timeStamp = ToDatetime(file_in[k].timeStamp)}}

LabelledInFile(t) ==
    \E k \in DOMAIN file_out :
        file_out[k].timeStamp = FromDatetime(t) /\ file_out[k].incident = Val(1)

\* C1: once the file is written, every incident-flagged row of the input
\* file (rows with repeated timestamps included) has its incident assigned
\* to exactly one timestamp, which is in the written file, carries the
\* label there and is not a member of the removables set.
C1_EveryIncidentAssigned ==
    pc_eq = "done" =>
        \A k \in DOMAIN file_in :
            Positive(file_in[k].incident) =>
                /\ Cardinality(AssignedTo(k)) = 1
                /\ \A t \in AssignedTo(k) :
                    LabelledInFile(t) /\ t \notin Removables0

\* C2: the timestamp labelled for an incident is a grid timestamp at minimal
\* distance from the incident's own timestamp and survives in the written
\* file; a removable candidate leaves the frame and removables together, so
\* that during the search the frame's index is the grid plus the removables
\* still to drop.
C2_NearestSurviving ==
    /\ \A j \in DOMAIN assigned :
        /\ assigned[j] \in GridDt
        /\ \A g \in GridDt :
            Dist(assigned[j], incident_list[j].timeStamp)
                <= Dist(g, incident_list[j].timeStamp)
        /\ pc_eq = "done" => LabelledInFile(assigned[j])
    /\ pc_eq = "loop" =>
        /\ removables \subseteq Removables0
        /\ Index(df) = GridDt \cup removables
        /\ misses = Cardinality(Removables0 \ removables)
    /\ pc_eq = "done" => Len(assigned) = Len(incident_list)

\* C2 witness: an incident off the grid was labelled at another timestamp
\* after removable candidates had been dropped, and the file is written
C2_Witness ==
    /\ pc_eq = "done" /\ misses > 1
    /\ \E j \in DOMAIN assigned : assigned[j] # incident_list[j].timeStamp

\* C3 as stated: two distinct incidents share a labelled timestamp only when
\* no other surviving grid timestamp is free to take one of them.
C3_NoAvoidableCollision ==
    pc_eq = "done" =>
        \A j1, j2 \in DOMAIN assigned :
            (j1 # j2 /\ assigned[j1] = assigned[j2])
                => GridDt \ Range(assigned) = {}

\* the grid timestamp nearest to t, the later one of two equally near
NearestLater(t) ==
    CHOOSE g \in GridDt :
        \A h \in GridDt :
            \/ Dist(g, t) < Dist(h, t)
            \/ (Dist(g, t) = Dist(h, t) /\ h <= g)

\* C3 amended: every incident is labelled at its own nearest grid timestamp
\* (the later of two equally near), whatever the other incidents got: two
\* incidents with the same nearest grid timestamp share it, and the written
\* file holds that timestamp once, with the label 1.
C3_CollisionsShareNearest ==
    /\ \A j1, j2 \in DOMAIN assigned :
        NearestLater(incident_list[j1].timeStamp)
            = NearestLater(incident_list[j2].timeStamp)
        => /\ assigned[j1] = assigned[j2]
           /\ assigned[j1] = NearestLater(incident_list[j1].timeStamp)
    /\ pc_eq = "done" =>
        \A j \in DOMAIN assigned :
            Cardinality({k \in DOMAIN file_out :
                file_out[k].timeStamp = FromDatetime(assigned[j])
                /\ file_out[k].incident = Val(1)}) = 1

\* C3 witness: two incidents share a timestamp while a grid timestamp is free
C3_Witness ==
    /\ pc_eq = "done"
    /\ \E j1, j2 \in DOMAIN assigned : j1 # j2 /\ assigned[j1] = assigned[j2]
    /\ GridDt \ Range(assigned) # {}

\* the grid C22 names: the multiples of time_interval from the first
\* original timestamp, floored, up to but not including the last one
StatedGrid ==
    LET first == file_in[1].timeStamp
        last == file_in[Len(file_in)].timeStamp
        start == first - (first % time_interval)
    IN  {t \in 0..last : /\ start <= t /\ t < last
                         /\ \E k \in 0..last : t = start + k * time_interval}

\* C22: the timestamps of the file equidistant_interpolate writes are
\* exactly the stated grid, each one once and in ascending order, so that
\* adjacent rows differ by exactly time_interval
C22_OutputIsGrid ==
    pc_eq = "done" =>
        /\ {file_out[k].timeStamp : k \in DOMAIN file_out} = StatedGrid
        /\ Len(file_out) = Cardinality(StatedGrid)
        /\ \A k \in 1..(Len(file_out) - 1) :
            file_out[k + 1].timeStamp - file_out[k].timeStamp = time_interval

\* C22 witness: a file of several rows is written, without original rows
\* that were off the grid and with grid rows the original file did not have
C22_Witness ==
    /\ pc_eq = "done" /\ Len(file_out) >= 2
    /\ Removables0 # {}
    /\ timestamps_net_new(file_in, time_interval) # {}
    /\ timestamps_original(file_in) \cap StatedGrid # {}

\* what is left of the search: the incidents still to assign, each worth one
\* more than all removables, plus the removables still in the set
SearchMeasure ==
    (Len(incident_list) - i) * (Cardinality(Removables0) + 1)
        + Cardinality(removables)

\* C29: for a ride with a non-empty grid, every iteration of the search
\* loop either labels the incident and moves to the next one or takes one
\* timestamp out of removables, the grid stays in the frame so that the
\* search never fails, and there are never more unsuccessful iterations
\* than removables at the start
C29_SearchTerminates ==
    [][(pc_eq = "loop" /\ GridDt # {}) =>
        /\ pc_eq' \in {"loop", "done"}
        /\ misses' <= Cardinality(Removables0)
        /\ pc_eq' = "loop" =>
            /\ SearchMeasure' < SearchMeasure
            /\ \/ i' = i + 1 /\ removables' = removables
               \/ /\ i' = i /\ removables' \subseteq removables
                  /\ Cardinality(removables') = Cardinality(removables) - 1
            /\ GridDt \subseteq Index(df')
        /\ pc_eq' = "done" => i = Len(incident_list)]_vars

\* C29 witness: the search is over for two incidents after as many
\* unsuccessful iterations as there were removables
C29_Witness ==
    /\ pc_eq = "done" /\ GridDt # {}
    /\ Len(incident_list) >= 2 /\ Len(assigned) = Len(incident_list)
    /\ misses = Cardinality(Removables0) /\ misses >= 2

-----------------------------------------------------------------------------
(* Claims about create_buckets *)

Written(sp) == DOMAIN archive[sp] # {}

\* the buckets of a written archive, in either output mode
ArchiveBuckets(sp) ==
    IF ~Written(sp) THEN {}
    ELSE IF "arr_0" \in DOMAIN archive[sp] THEN Range(archive[sp].arr_0)
    ELSE {e[2] : e \in archive[sp].files}

\* the row a cell was read from carried a non-zero incident flag
FlaggedSource(sp, cell) ==
    \E f \in Range(bk_input[sp]) :
        f.name = cell.X[1] /\ cell.X[2] \in f.inc /\ f.flag # 0

\* C4: in every bucket of every written archive, in both output modes, the
\* last channel holds one value in all window_size x slices cells, and that
\* value is 1 exactly when a row the bucket was built from had a non-zero
\* incident flag (it is 0 otherwise).
C4_LabelUniformOr ==
    \A sp \in Range(Splits) :
        \A b \in ArchiveBuckets(sp) :
            LET flagged == \E c \in Cells(b) : FlaggedSource(sp, c)
            IN  \A c \in Cells(b) :
                    c.incident = IF flagged THEN 1 ELSE 0

\* C4 witness: create_buckets has finished and an addressable archive holds
\* a bucket labelled 1 with a cell read from a row without incident
C4_Witness ==
    /\ pc_bk = "done" /\ ~in_memory_flag
    /\ \E sp \in Range(Splits) :
        \E b \in ArchiveBuckets(sp) :
            /\ \A c \in Cells(b) : c.incident = 1
            /\ \E c \in Cells(b) : ~FlaggedSource(sp, c)

\* the number of buckets of a written archive that were read from a file
BucketsOf(sp, name) ==
    IF "arr_0" \in DOMAIN archive[sp]
    THEN Cardinality({k \in DOMAIN archive[sp].arr_0 :
                        archive[sp].arr_0[k][0][0].X[1] = name})
    ELSE Cardinality({e \in archive[sp].files : e[1].file = name})

\* C5: a ride file of n >= 120 rows contributes exactly
\* (n - 120) div (window_size * slices) buckets to its split's archive
\* (remainder rows dropped, never rounded up); the ride of 500 rows with
\* window_size 5 and slices 20 contributes 3.
C5_BucketCount ==
    \A sp \in Range(Splits) :
        Written(sp) =>
            \A f \in Range(bk_input[sp]) :
                /\ f.n >= 2 * Trim =>
                    BucketsOf(sp, f.name)
                        = (f.n - 2 * Trim) \div (window_size * slices)
                /\ (f.n = ScenarioRows /\ window_size = ScenarioWindow
                        /\ slices = ScenarioSlices)
                    => BucketsOf(sp, f.name) = 3

\* C5 witness: the 500-row ride is archived, and so is a ride with
\* remainder rows
C5_Witness ==
    /\ pc_bk = "done"
    /\ \E sp \in Range(Splits) :
        \E f \in Range(bk_input[sp]) :
            \/ f.n = ScenarioRows
            \/ /\ f.n > 2 * Trim + window_size * slices
               /\ (f.n - 2 * Trim) % (window_size * slices) # 0

\* C6: a ride file that yields no bucket (fewer than 120 + window_size *
\* slices rows) is never deleted, and create_buckets does not run to its
\* end past it: it raises.
C6_ZeroBucketsRaise ==
    \A sp \in Range(Splits) :
        \A f \in Range(bk_input[sp]) :
            f.n < 2 * Trim + window_size * slices =>
                /\ f \in Range(bk_dir[sp])
                /\ pc_bk # "done"

\* the buckets of a written archive, each with the file it was read from
\* and its index among the buckets of that file: the key says both in an
\* addressable archive, the position among the buckets of the same file
\* does in arr_0
Located(sp) ==
    IF "arr_0" \in DOMAIN archive[sp]
    THEN LET arr == archive[sp].arr_0
             from(k) == arr[k][0][0].X[1]
         IN  {[name |-> from(k),
               no |-> Cardinality({j \in 1..(k - 1) : from(j) = from(k)}),
               bucket |-> arr[k]] : k \in DOMAIN arr}
    ELSE {[name |-> e[1].file, no |-> e[1].no, bucket |-> e[2]] :
            e \in archive[sp].files}

\* C24: in a written archive, cell [w][s] of bucket b of a ride holds the
\* feature channels of row 60 + b * window_size * slices + s * window_size
\* + w of the ride file; the rows from 60 up to the last full bucket are
\* each held by exactly one cell, and no other row is held by any cell
C24_BucketLayout ==
    \A sp \in Range(Splits) :
        Written(sp) =>
            /\ \A l \in Located(sp) :
                /\ DOMAIN l.bucket = 0..(window_size - 1)
                /\ \A wi \in 0..(window_size - 1) :
                    /\ DOMAIN l.bucket[wi] = 0..(slices - 1)
                    /\ \A si \in 0..(slices - 1) :
                        l.bucket[wi][si].X =
                            <<l.name, Trim + l.no * window_size * slices
                                        + si * window_size + wi>>
            /\ \A f \in Range(bk_input[sp]) :
                LET full == IF f.n < 2 * Trim THEN 0
                            ELSE ((f.n - 2 * Trim) \div (window_size * slices))
                                    * window_size * slices
                    own == {l \in Located(sp) : l.name = f.name}
                    held == UNION {{c.X : c \in Cells(l.bucket)} : l \in own}
                IN  \* the rows held are those from 60 on, and there are as
                    \* many cells as rows: no row is held twice
                    /\ held = {<<f.name, r>> : r \in Trim..(Trim + full - 1)}
                    /\ Cardinality(own) * window_size * slices = full

\* C24 witness: an archive holds a second bucket of a ride, of several
\* windows and several slices
C24_Witness ==
    /\ pc_bk = "done" /\ window_size >= 2 /\ slices >= 2
    /\ \E sp \in Range(Splits) : \E l \in Located(sp) : l.no >= 1

\* the buckets create_buckets holds for a split: those of its archive once
\* it is written, those collected so far before
HeldBuckets(sp) ==
    IF Written(sp) THEN ArchiveBuckets(sp)
    ELSE IF sp = split /\ pc_bk \in {"files", "error"}
         THEN Range(buckets_list) \cup {e[2] : e \in buckets_dict}
         ELSE {}

RideBuckets(f) == Range(file_buckets(f, window_size, slices))

\* C25: when create_buckets has completed, no ride file is left in any
\* split, every region directory is removed and the archive of every split
\* is written and holds the buckets of all rides of the split and no other;
\* at any time a ride file is gone only when its buckets are held (collected
\* or archived), and a region directory is gone only when it was empty and
\* its archive is written in the same step
C25_BucketizerLifecycle ==
    /\ pc_bk = "done" =>
        \A sp \in Range(Splits) :
            /\ bk_dir[sp] = <<>>
            /\ ~region_dir[sp]
            /\ Written(sp)
            /\ ArchiveBuckets(sp) =
                UNION {RideBuckets(f) : f \in Range(bk_input[sp])}
    /\ pc_bk \in {"split", "files", "done", "error"} =>
        \A sp \in Range(Splits) :
            /\ \A f \in Range(bk_input[sp]) \ Range(bk_dir[sp]) :
                RideBuckets(f) \subseteq HeldBuckets(sp)
            /\ Range(bk_dir[sp]) \subseteq Range(bk_input[sp])
            /\ ~region_dir[sp] <=> Written(sp)
            /\ Written(sp) => bk_dir[sp] = <<>>

\* C25 witness: create_buckets has completed on a split of two rides whose
\* archive holds buckets of both
C25_Witness ==
    /\ pc_bk = "done"
    /\ \E sp \in Range(Splits) :
        /\ Len(bk_input[sp]) = 2
        /\ \A f \in Range(bk_input[sp]) :
            RideBuckets(f) # {} /\ RideBuckets(f) \subseteq ArchiveBuckets(sp)
    /\ \A sp \in Range(Splits) : bk_dir[sp] = <<>> /\ ~region_dir[sp]

-----------------------------------------------------------------------------
(* remove_invalid_rides *)

\* line 57: the longest gap between adjacent rows of a valid ride, in ms
Threshold == 6000

\* line 55: Series.diff() of the column timeStamp; the first cell is NaN
diff(rows) ==
    [k \in DOMAIN rows |->
        IF k = 1 THEN NaN ELSE Val(rows[k].timeStamp - rows[k - 1].timeStamp)]

\* (variant: a gap of exactly the threshold counts as a breakpoint)
breakpoints_inclusive(rows) ==
    {k \in DOMAIN rows : ~IsNaN(diff(rows)[k]) /\ Num(diff(rows)[k]) >= Threshold}

\* line 57: np.where(df_cp['timeStamp'] > 6000); NaN > 6000 is False
breakpoints(rows) ==
    {k \in DOMAIN rows : ~IsNaN(diff(rows)[k]) /\ Num(diff(rows)[k]) > Threshold}

\* DataFrame.dropna(axis=0) of a ride file: the rows without a NaN cell (the
\* column timeStamp of a file has no empty cell)
no_nan(r) == \A c \in DOMAIN r \ {"timeStamp"} : ~IsNaN(r[c])
dropna(rows) == SelectSeq(rows, no_nan)

\* lines 54-59: the copy of the frame with the diffs in the column timeStamp,
\* and the positions of its rows without a NaN cell
iv_df_cp(rows) ==
    {k \in DOMAIN rows : ~IsNaN(diff(rows)[k]) /\ no_nan(rows[k])}

\* (variant: only a ride without a complete row is removed)
removes_empty_only(rows) == Cardinality(iv_df_cp(rows)) = 0

\* lines 52-63: TRUE when the worker removes the file
remove_invalid_rides_inner(rows) ==
    Cardinality(iv_df_cp(rows)) = 0 \/ breakpoints(rows) # {}

FileNames(files) == {f.name : f \in files}
FileNamed(files, name) == CHOOSE f \in files : f.name = name

\* line 74: the glob of one split
IvGlob ==
    /\ pc_iv = "glob"
    /\ iv_file_list' = FileNames(iv_dir[Splits[iv_split]])
    /\ pc_iv' = "map"
    /\ UNCHANGED <<iv_dir, iv_input, iv_split>>
    /\ UNCHANGED notIv

\* lines 76-77 and 47-63: one worker of the pool handles one file
IvWorker ==
    /\ pc_iv = "map"
    /\ \E name \in iv_file_list :
        LET sp == Splits[iv_split]
            f == FileNamed(iv_dir[sp], name)
        IN  /\ iv_dir' = [iv_dir EXCEPT ![sp] =
                            IF remove_invalid_rides_inner(f.rows)
                            THEN @ \ {f} ELSE @]
            /\ iv_file_list' = iv_file_list \ {name}
    /\ UNCHANGED <<iv_input, iv_split, pc_iv>>
    /\ UNCHANGED notIv

\* lines 73-79: the pool is joined; the next split, or the stage returns
IvJoin ==
    /\ pc_iv = "map"
    /\ iv_file_list = {}
    /\ iv_split' = iv_split + 1
    /\ pc_iv' = IF iv_split = Len(Splits) THEN "returned" ELSE "glob"
    /\ UNCHANGED <<iv_dir, iv_input, iv_file_list>>
    /\ UNCHANGED notIv

(* Inputs of remove_invalid_rides: sorted ride files, as sort_timestamps
   leaves them *)

MaxFilterRows == 3
Gaps == {0, Threshold - 1, Threshold, Threshold + 1}

\* a row of a raw ride file: a GPS row, or a sensor row without GPS cells
RawRow(t, isGps, c) ==
    [timeStamp |-> t,
     lat |-> IF isGps THEN Val(1) ELSE NaN,
     lon |-> IF isGps THEN Val(1) ELSE NaN,
     acc |-> IF isGps THEN Val(1) ELSE NaN,
     X |-> Val(1),
     incident |-> Val(c)]

RECURSIVE SumTo(_, _)
SumTo(g, k) == IF k = 0 THEN 0 ELSE g[k] + SumTo(g, k - 1)

FilterFiles(name) ==
    {[name |-> name,
      rows |-> [k \in 1..n |-> RawRow(IF k = 1 THEN 0 ELSE SumTo(g, k - 1), gps[k], 0)]] :
        n \in 1..MaxFilterRows,
        g \in [1..(MaxFilterRows - 1) -> Gaps],
        gps \in [1..MaxFilterRows -> BOOLEAN]}

FilterCompanion ==
    [name |-> "VM2_c", rows |-> <<RawRow(0, TRUE, 0), RawRow(Threshold, TRUE, 0)>>]

FilterDirs ==
    {[sp \in Range(Splits) |->
        (IF sp = at THEN {f} ELSE {}) \cup (IF sp \in with THEN {FilterCompanion} ELSE {})] :
        at \in Range(Splits), f \in FilterFiles("VM2_r"),
        with \in {{}, Range(Splits)}}

InitIv ==
    /\ iv_dir \in FilterDirs
    /\ iv_input = iv_dir
    /\ iv_split = 1
    /\ iv_file_list = {}
    /\ pc_iv = "glob"

IdleIv ==
    /\ iv_dir = [sp \in Range(Splits) |-> {}]
    /\ iv_input = iv_dir
    /\ iv_split = 1
    /\ iv_file_list = {}
    /\ pc_iv = "idle"

NextIv == IvGlob \/ IvWorker \/ IvJoin

(* Claims about remove_invalid_rides *)

\* the files of split sp the stage has dealt with
IvHandled(sp) ==
    {f \in iv_input[sp] :
        \/ pc_iv = "returned"
        \/ \E k \in 1..Len(Splits) : Splits[k] = sp /\ k < iv_split
        \/ Splits[iv_split] = sp /\ pc_iv = "map" /\ f.name \notin iv_file_list}

LongGap(rows) ==
    \E k \in 2..Len(rows) : rows[k].timeStamp - rows[k - 1].timeStamp > Threshold

\* a row behind the first one (whose diff is NaN) without an empty cell
CompleteRow(rows) ==
    \E k \in 2..Len(rows) :
        /\ ~IsNaN(rows[k].lat) /\ ~IsNaN(rows[k].lon) /\ ~IsNaN(rows[k].acc)
        /\ ~IsNaN(rows[k].X) /\ ~IsNaN(rows[k].incident)

\* C9: a ride file the invalid-ride filter has handled still exists, with
\* its rows as they were, exactly when no two adjacent rows are more than
\* 6000 ms apart (exactly 6000 ms is kept) and some row is complete after the
\* timestamp diff; every other file is deleted
C9_InvalidRideFilter ==
    \A sp \in Range(Splits) : \A f \in IvHandled(sp) :
        /\ f \in iv_dir[sp] <=> (~LongGap(f.rows) /\ CompleteRow(f.rows))
        /\ f \in iv_dir[sp] =>
             \A k \in 2..Len(f.rows) :
                 f.rows[k].timeStamp - f.rows[k - 1].timeStamp <= Threshold

\* the stage has returned having kept a ride with a gap of exactly 6000 ms,
\* deleted one with a longer gap and deleted one without a complete row
C9_Witness ==
    /\ pc_iv = "returned"
    /\ \E sp \in Range(Splits) : \E f \in iv_input[sp] :
        /\ f.name = "VM2_r"
        /\ f \notin iv_dir[sp]
        /\ \/ LongGap(f.rows)
           \/ ~LongGap(f.rows) /\ ~CompleteRow(f.rows) /\ Len(f.rows) = MaxFilterRows
        /\ FilterCompanion \in iv_dir[sp]

-----------------------------------------------------------------------------
(* Rational numbers: <<n>> is the integer n, <<n, d>> the quotient n / d with
   d >= 0; <<1, 0>> and <<-1, 0>> are the two infinities of float division *)

Numer(v) == v[1]
Denom(v) == IF Len(v) = 1 THEN 1 ELSE v[2]
Sign(x) == IF x < 0 THEN -1 ELSE IF x > 0 THEN 1 ELSE 0

\* a < b for two numbers (a comparison with NaN is handled by the caller)
Less(a, b) == Numer(a) * Denom(b) < Numer(b) * Denom(a)

\* n / d in floats: x / 0 is an infinity, 0 / 0 is NaN
Quot(n, d) ==
    IF d = 0 THEN (IF n = 0 THEN NaN ELSE <<Sign(n), 0>>)
    ELSE IF d < 0 THEN <<-n, -d>>
    ELSE IF d = 1 THEN <<n>>
    ELSE <<n, d>>

-----------------------------------------------------------------------------
(* The workers of the stages that rewrite one ride file *)

\* (variant: ascending=False)
sort_descending(rows) == Reverse(SortAscending(rows))

\* lines 27-29: sort_values(['timeStamp'], ascending=True, kind='merge')
sort_timestamps_inner(rows) == SortAscending(rows)

\* the rows with a value in each of the columns lat, lon, acc
has_gps(r) == ~IsNaN(r.lat) /\ ~IsNaN(r.lon) /\ ~IsNaN(r.acc)

\* lines 91-100: in a file whose name ends in 'a' the sensor cells of the
\* rows with a GPS measurement are emptied
remove_sensor_values_from_gps_timestamps_inner(android, rows) ==
    IF android
    THEN [k \in DOMAIN rows |->
            IF has_gps(rows[k]) THEN [rows[k] EXCEPT !.X = NaN] ELSE rows[k]]
    ELSE rows

\* (variant: the bounds themselves count as outliers, <= and >=)
remove_acc_outliers_closed(lower, upper, rows) ==
    [k \in DOMAIN rows |->
        LET r == rows[k]
            outlier == /\ ~IsNaN(r.acc)
                       /\ ~Less(lower, r.acc) \/ ~Less(r.acc, upper)
        IN  [c \in DOMAIN r \ {"acc"} |->
                IF outlier /\ c \in {"lat", "lon"} THEN NaN ELSE r[c]]]

\* lines 126-142: lat and lon of the rows whose acc is outside the bounds
\* are emptied and the column acc is dropped
remove_acc_outliers_inner(lower, upper, rows) ==
    [k \in DOMAIN rows |->
        LET r == rows[k]
            outlier == /\ ~IsNaN(r.acc)
                       /\ Less(r.acc, lower) \/ Less(upper, r.acc)
        IN  [c \in DOMAIN r \ {"acc"} |->
                IF outlier /\ c \in {"lat", "lon"} THEN NaN ELSE r[c]]]

\* lines 191-202: lat and lon become the change per second since the row
\* before among the rows that have both; every other row gets NaN
calc_vel_delta_inner(rows) ==
    LET valid == {k \in DOMAIN rows : ~IsNaN(rows[k].lat) /\ ~IsNaN(rows[k].lon)}
        cell(k, col) ==
            LET before == {j \in valid : j < k}
            IN  IF k \notin valid \/ before = {} THEN NaN
                ELSE LET p == SetMax(before)
                     IN  Quot((Num(rows[k][col]) - Num(rows[p][col])) * 1000,
                              rows[k].timeStamp - rows[p].timeStamp)
    IN  [k \in DOMAIN rows |->
            [rows[k] EXCEPT !.lat = cell(k, "lat"), !.lon = cell(k, "lon")]]

\* lines 225-263
linear_interpolate(rows) ==
    LET dated == [k \in DOMAIN rows |->
                    [rows[k] EXCEPT !.timeStamp = ToDatetime(rows[k].timeStamp)]]
        filled == interpolate_time(DropDuplicated(dated, {}), "X")
        padded == interpolate_pad(interpolate_pad(sort_descending(filled), "lat"), "lon")
        sorted == SortAscending(padded)
    IN  [k \in DOMAIN sorted |->
            [sorted[k] EXCEPT !.timeStamp = FromDatetime(sorted[k].timeStamp)]]

\* lines 330-354: the loop over incident_list from its k-th entry on, then
\* the write; error when line 336 meets an empty index
RECURSIVE eq_loop(_, _, _, _)
eq_loop(frame, rem, incidents, k) ==
    IF k > Len(incidents)
    THEN [error |-> FALSE, rows |-> eq_written(drop(frame, rem))]
    ELSE IF Index(frame) = {} THEN [error |-> TRUE, rows |-> <<>>]
    ELSE LET cand == get_indexer_nearest(Index(frame), incidents[k].timeStamp)
         IN  IF cand \notin rem
             THEN eq_loop(set_incident(frame, cand), rem, incidents, k + 1)
             ELSE eq_loop(drop(frame, {cand}), rem \ {cand}, incidents, k)

\* lines 273-354, one call
equidistant_interpolate(interval, rows) ==
    LET frame == eq_interpolated(rows, interval)
    IN  eq_loop(frame, removables_of(rows, interval), incident_rows(frame), 1)

\* a cell is outside the bounds; a comparison with NaN is False
outside(v, lower, upper) == ~IsNaN(v) /\ (Less(v, lower) \/ Less(upper, v))

\* lines 392-406: the rows with lat or lon outside the bounds are dropped
remove_vel_outliers_inner(lower, upper, rows) ==
    SelectSeq(rows, LAMBDA r : ~(\/ outside(r.lat, lower.lat, upper.lat)
                                 \/ outside(r.lon, lower.lon, upper.lon)))

\* lines 459-465: the rows with an empty cell are dropped; the result is
\* empty when the file is to be removed
remove_empty_rows_inner(rows) == dropna(rows)

\* (variant: the statistics are taken over the files of every split)
glob_all(dir) == UNION {dir[sp] : sp \in DOMAIN dir}

\* lines 148-150, 419 and 514-523: the files the statistics of a stage are
\* taken from, glob(os.path.join(dir, 'train', region, 'VM2_*.csv'))
glob_train(dir) == dir["train"]

RAdd(a, b) == Quot(Numer(a) * Denom(b) + Numer(b) * Denom(a), Denom(a) * Denom(b))
RSub(a, b) == Quot(Numer(a) * Denom(b) - Numer(b) * Denom(a), Denom(a) * Denom(b))
RMul(a, b) == Quot(Numer(a) * Numer(b), Denom(a) * Denom(b))

RECURSIVE InsertValue(_, _)
InsertValue(a, v) ==
    IF a = <<>> THEN <<v>>
    ELSE IF Less(v, Head(a)) THEN <<v>> \o a
    ELSE <<Head(a)>> \o InsertValue(Tail(a), v)

\* the values of an array in ascending order
RECURSIVE SortValues(_)
SortValues(a) ==
    IF a = <<>> THEN <<>>
    ELSE InsertValue(SortValues(Tail(a)), Head(a))

\* np.percentile(arr, q) for q = 25 * quarters, linear interpolation: the
\* value at the position quarters * (n - 1) / 4 of the sorted array
percentile(arr, quarters) ==
    LET a == SortValues(arr)
        lo == (quarters * (Len(a) - 1)) \div 4
        r == (quarters * (Len(a) - 1)) % 4
    IN  IF r = 0 THEN a[lo + 1]
        ELSE RAdd(a[lo + 1], RMul(<<r, 4>>, RSub(a[lo + 2], a[lo + 1])))

\* lines 163-170 and 435-441: the bounds q25 - iqr * k and q75 + iqr * k
outlier_bounds(arr, k) ==
    LET q25 == percentile(arr, 1)
        q75 == percentile(arr, 3)
        cut_off == RMul(RSub(q75, q25), k)
    IN  [lower |-> RSub(q25, cut_off), upper |-> RAdd(q75, cut_off)]

\* np.concatenate of one column of the files
RECURSIVE concatenate(_, _)
concatenate(files, col) ==
    IF files = {} THEN <<>>
    ELSE LET f == CHOOSE g \in files : TRUE
         IN  [k \in DOMAIN f.rows |-> f.rows[k][col]] \o concatenate(files \ {f}, col)

\* the columns the scaler is fitted on and applied to
ScaledColumns == {"lat", "lon", "X"}

abs_value(v) == Quot(Abs(Numer(v)), Denom(v))
fillna_zero(v) == IF IsNaN(v) THEN Val(0) ELSE v

\* the largest absolute value of a column over the rows of some files
max_abs(files, col) ==
    LET all == UNION {{abs_value(fillna_zero(f.rows[k][col])) : k \in DOMAIN f.rows} :
                        f \in files}
    IN  CHOOSE x \in all : \A y \in all : ~Less(x, y)

\* a new MaxAbsScaler()
unfitted == [fitted |-> FALSE, scale_ |-> [c \in ScaledColumns |-> Val(1)]]

\* lines 523-531: partial_fit over the files, one after the other; scale_
\* is max_abs_ with 1 in place of 0.  Without a file the scaler stays unfitted
partial_fit_all(files) ==
    IF files = {} THEN unfitted
    ELSE [fitted |-> TRUE,
          scale_ |-> [c \in ScaledColumns |->
                        IF Numer(max_abs(files, c)) = 0 THEN Val(1)
                        ELSE max_abs(files, c)]]

\* MaxAbsScaler.transform of one cell: the value over the column's scale
transform(v, s) == Quot(Numer(v) * Denom(s), Denom(v) * Numer(s))

\* lines 489-500: lat, lon and the sensor columns are scaled and the column
\* timeStamp is left out of the file
scale_inner(scaler, rows) ==
    [k \in DOMAIN rows |->
        [c \in DOMAIN rows[k] \ {"timeStamp"} |->
            IF c \in ScaledColumns
            THEN transform(rows[k][c], scaler.scale_[c]) ELSE rows[k][c]]]

-----------------------------------------------------------------------------
(* One ride file through the stages of preprocess (lines 940-948).  The
   bounds of the two outlier filters and the scaler's parameters depend on
   the other files of the train split: they are any of a few values. *)

Stages ==
    <<"sort_timestamps", "remove_invalid_rides",
      "remove_sensor_values_from_gps_timestamps", "remove_acc_outliers",
      "calc_vel_delta", "interpolate", "remove_vel_outliers",
      "remove_empty_rows", "scale">>

\* the next stage is the one of this name and the file is there for its glob
PlAt(stage) ==
    /\ pl_done < Len(Stages) /\ Stages[pl_done + 1] = stage
    /\ pl_exists /\ ~pl_error

PlRewrite(rows) ==
    /\ pl_rows' = rows
    /\ pl_done' = pl_done + 1
    /\ UNCHANGED <<pl_exists, pl_split, pl_android, pl_type, pl_error, pl_raw>>
    /\ UNCHANGED notPl

PlRemove ==
    /\ pl_exists' = FALSE
    /\ pl_done' = pl_done + 1
    /\ UNCHANGED <<pl_rows, pl_split, pl_android, pl_type, pl_error, pl_raw>>
    /\ UNCHANGED notPl

PlKeep == PlRewrite(pl_rows)

\* lines 22-29
PlSort ==
    /\ PlAt("sort_timestamps")
    /\ PlRewrite(sort_timestamps_inner(pl_rows))

\* lines 47-63
PlInvalid ==
    /\ PlAt("remove_invalid_rides")
    /\ IF remove_invalid_rides_inner(pl_rows) THEN PlRemove ELSE PlKeep

\* lines 82-100
PlDecontaminate ==
    /\ PlAt("remove_sensor_values_from_gps_timestamps")
    /\ PlRewrite(remove_sensor_values_from_gps_timestamps_inner(pl_android, pl_rows))

AccBounds ==
    {[lower |-> Val(-20), upper |-> Val(20)], [lower |-> Val(0), upper |-> Val(4)]}

\* lines 152-160 and 120-142: a train file without a value of acc is removed
\* before the bounds are computed; every other file is rewritten
PlAccOutliers ==
    /\ PlAt("remove_acc_outliers")
    /\ IF pl_split = "train" /\ \A k \in DOMAIN pl_rows : IsNaN(pl_rows[k].acc)
       THEN PlRemove
       ELSE \E b \in AccBounds :
                PlRewrite(remove_acc_outliers_inner(b.lower, b.upper, pl_rows))

\* lines 186-202
PlVelDelta ==
    /\ PlAt("calc_vel_delta")
    /\ PlRewrite(calc_vel_delta_inner(pl_rows))

InterpolationTypes == {"linear", "equidistant", "nearest"}
PlIntervals == {1, 2}

\* lines 368-383 with 220-263 or 266-354; a type that is neither 'linear' nor
\* 'equidistant' leaves the file as it is
PlInterpolate ==
    /\ PlAt("interpolate")
    /\ \E type \in InterpolationTypes, interval \in PlIntervals :
        /\ type = "equidistant" \/ interval = 1
        /\ LET res == IF type = "linear"
                      THEN [error |-> FALSE, rows |-> linear_interpolate(pl_rows)]
                      ELSE IF type = "equidistant"
                      THEN equidistant_interpolate(interval, pl_rows)
                      ELSE [error |-> FALSE, rows |-> pl_rows]
           IN  /\ pl_error' = res.error
               /\ pl_rows' = IF res.error THEN pl_rows ELSE res.rows
               /\ pl_done' = IF res.error THEN pl_done ELSE pl_done + 1
               /\ pl_type' = type
    /\ UNCHANGED <<pl_exists, pl_split, pl_android, pl_raw>>
    /\ UNCHANGED notPl

VelBounds ==
    {[lower |-> [lat |-> Val(-100000), lon |-> Val(-100000)],
      upper |-> [lat |-> Val(100000), lon |-> Val(100000)]],
     [lower |-> [lat |-> Val(0), lon |-> Val(0)],
      upper |-> [lat |-> Val(2000), lon |-> Val(0)]]}

\* lines 417-426 and 386-406: a train file without a complete row is removed
\* before the bounds are computed
PlVelOutliers ==
    /\ PlAt("remove_vel_outliers")
    /\ IF pl_split = "train" /\ dropna(pl_rows) = <<>>
       THEN PlRemove
       ELSE \E b \in VelBounds :
                PlRewrite(remove_vel_outliers_inner(b.lower, b.upper, pl_rows))

\* lines 454-465
PlEmptyRows ==
    /\ PlAt("remove_empty_rows")
    /\ IF Len(remove_empty_rows_inner(pl_rows)) # 0
       THEN PlRewrite(remove_empty_rows_inner(pl_rows))
       ELSE PlRemove

Scalers ==
    {[fitted |-> TRUE, scale_ |-> [lat |-> Val(1), lon |-> Val(1), X |-> Val(1)]],
     [fitted |-> TRUE, scale_ |-> [lat |-> Val(2000), lon |-> Val(1), X |-> Val(2)]]}

\* lines 483-500
PlScale ==
    /\ PlAt("scale")
    /\ \E scaler \in Scalers : PlRewrite(scale_inner(scaler, pl_rows))

(* Inputs: an exported ride file, its rows in any order *)

PlMaxRows == 3
PlTimes == 0..2

\* a row of an exported file: a sensor row without or with an incident, or
\* a GPS row of good or of poor accuracy
ExportedRow(t, kind) ==
    [timeStamp |-> t,
     lat |-> IF kind = "g" THEN Val(2 * t) ELSE IF kind = "h" THEN Val(2 * t + 1) ELSE NaN,
     lon |-> IF kind \in {"g", "h"} THEN Val(0) ELSE NaN,
     acc |-> IF kind = "g" THEN Val(1) ELSE IF kind = "h" THEN Val(9) ELSE NaN,
     X |-> Val(1),
     incident |-> IF kind = "s2" THEN Val(2) ELSE Val(0)]

ExportedFiles ==
    UNION {[1..n -> {ExportedRow(t, kind) : t \in PlTimes, kind \in {"s0", "s2", "g", "h"}}] :
            n \in 1..PlMaxRows}

InitPl ==
    /\ pl_rows \in ExportedFiles
    /\ pl_raw = Sorted(pl_rows)
    /\ pl_exists = TRUE
    /\ pl_split \in {"train", "test"}
    /\ pl_android \in BOOLEAN
    /\ pl_done = 0
    /\ pl_type = ""
    /\ pl_error = FALSE

IdlePl ==
    /\ pl_rows = <<>>
    /\ pl_raw = TRUE
    /\ pl_exists = FALSE
    /\ pl_split = ""
    /\ pl_android = FALSE
    /\ pl_done = 0
    /\ pl_type = ""
    /\ pl_error = FALSE

NextPl ==
    \/ PlSort \/ PlInvalid \/ PlDecontaminate \/ PlAccOutliers \/ PlVelDelta
    \/ PlInterpolate \/ PlVelOutliers \/ PlEmptyRows \/ PlScale

(* Claims about the order of the timestamps *)

\* C10: once sort_timestamps has handled a ride file, and until scale leaves
\* out the column timeStamp, the rows of the file are in non-decreasing order
\* of their timestamps after every stage
C10_TimestampOrder ==
    (pl_exists /\ pl_done >= 1 /\ pl_done < Len(Stages)) => Sorted(pl_rows)

\* a file exported out of order has passed the resampler and the row cleaner
\* with two or more rows
C10_Witness ==
    /\ pl_exists /\ pl_done = Len(Stages) - 1
    /\ ~pl_raw
    /\ pl_type = "equidistant"
    /\ Len(pl_rows) >= 2

-----------------------------------------------------------------------------
(* scale, run after run on one data directory *)

\* (variant: the saved scaler is never looked for)
isfile_never(f) == FALSE

\* line 519: os.path.isfile(scaler_file)
isfile(f) == f # <<>>

\* lines 519-520: the saved scaler is loaded
ScLoad ==
    /\ pc_sc = "start"
    /\ isfile(sc_file)
    /\ scaler_maxabs' = sc_file[1]
    /\ sc_found_in' = IF sc_file # <<>> THEN sc_found_in \cup {sc_run} ELSE sc_found_in
    /\ pc_sc' = "glob"
    /\ UNCHANGED <<sc_dir, sc_input, sc_file, sc_split, sc_file_list, sc_run,
                   sc_fit_in, sc_dumps, sc_first>>
    /\ UNCHANGED notSc

\* lines 521-534: a scaler is fitted on the train files and saved
ScFit ==
    /\ pc_sc = "start"
    /\ ~isfile(sc_file)
    /\ scaler_maxabs' = partial_fit_all(glob_train(sc_dir))
    /\ sc_file' = <<scaler_maxabs'>>
    /\ sc_found_in' = IF sc_file # <<>> THEN sc_found_in \cup {sc_run} ELSE sc_found_in
    /\ sc_fit_in' = sc_fit_in \cup {sc_run}
    /\ sc_dumps' = sc_dumps + 1
    /\ sc_first' = IF sc_first = <<>> THEN sc_file' ELSE sc_first
    /\ pc_sc' = "glob"
    /\ UNCHANGED <<sc_dir, sc_input, sc_split, sc_file_list, sc_run>>
    /\ UNCHANGED notSc

\* line 537: the glob of one split
ScGlob ==
    /\ pc_sc = "glob"
    /\ sc_file_list' = FileNames(sc_dir[Splits[sc_split]])
    /\ pc_sc' = "map"
    /\ UNCHANGED <<sc_dir, sc_input, sc_file, scaler_maxabs, sc_split, sc_run,
                   sc_found_in, sc_fit_in, sc_dumps, sc_first>>
    /\ UNCHANGED notSc

\* lines 539-540 and 483-500: one worker of the pool rewrites one file
ScWorker ==
    /\ pc_sc = "map"
    /\ scaler_maxabs.fitted
    /\ \E name \in sc_file_list :
        LET sp == Splits[sc_split]
            f == FileNamed(sc_dir[sp], name)
        IN  /\ sc_dir' = [sc_dir EXCEPT ![sp] =
                            (@ \ {f}) \cup {[f EXCEPT !.rows = scale_inner(scaler_maxabs, @)]}]
            /\ sc_file_list' = sc_file_list \ {name}
    /\ UNCHANGED <<sc_input, sc_file, scaler_maxabs, sc_split, sc_run,
                   sc_found_in, sc_fit_in, sc_dumps, sc_first, pc_sc>>
    /\ UNCHANGED notSc

\* lines 494-495 with a scaler that was never fitted: transform raises
\* NotFittedError, which pool.map raises in scale
ScRaise ==
    /\ pc_sc = "map"
    /\ ~scaler_maxabs.fitted
    /\ sc_file_list # {}
    /\ pc_sc' = "error"
    /\ UNCHANGED <<sc_dir, sc_input, sc_file, scaler_maxabs, sc_split,
                   sc_file_list, sc_run, sc_found_in, sc_fit_in, sc_dumps, sc_first>>
    /\ UNCHANGED notSc

\* lines 536-542: the pool is joined; the next split, or the stage returns
ScJoin ==
    /\ pc_sc = "map"
    /\ sc_file_list = {}
    /\ sc_split' = sc_split + 1
    /\ pc_sc' = IF sc_split = Len(Splits) THEN "returned" ELSE "glob"
    /\ UNCHANGED <<sc_dir, sc_input, sc_file, scaler_maxabs, sc_file_list,
                   sc_run, sc_found_in, sc_fit_in, sc_dumps, sc_first>>
    /\ UNCHANGED notSc

(* Inputs of scale: the files the row cleaner leaves, and the next run of
   the pipeline on newly exported rides in the same data directory *)

MaxRuns == 2

CleanRow(t, lat, x) ==
    [timeStamp |-> t, lat |-> lat, lon |-> Val(0), X |-> Val(x), incident |-> Val(0)]

ScaleTrainFiles ==
    {[name |-> "VM2_1", rows |-> <<CleanRow(0, Val(2), 1), CleanRow(1, Quot(-9, 2), 2)>>],
     [name |-> "VM2_2", rows |-> <<CleanRow(0, Val(1), 8)>>]}

ScaleTestFiles ==
    {[name |-> "VM2_3", rows |-> <<CleanRow(0, Val(9), 16)>>]}

ScaleDirs ==
    {[sp \in Range(Splits) |->
        IF sp = "train" THEN train ELSE IF sp = "test" THEN test ELSE val] :
        train \in SUBSET ScaleTrainFiles, test \in SUBSET ScaleTestFiles,
        val \in SUBSET ScaleTestFiles}

\* a scaler saved by an earlier run
SavedScaler ==
    [fitted |-> TRUE, scale_ |-> [lat |-> Val(3), lon |-> Val(1), X |-> Val(4)]]

\* scale is reached by the next run of preprocess, on other files
ScRerun ==
    /\ pc_sc \in {"returned", "error"}
    /\ sc_run < MaxRuns
    /\ sc_run' = sc_run + 1
    /\ sc_dir' \in ScaleDirs
    /\ sc_input' = sc_dir'
    /\ scaler_maxabs' = unfitted
    /\ sc_split' = 1
    /\ sc_file_list' = {}
    /\ pc_sc' = "start"
    /\ UNCHANGED <<sc_file, sc_found_in, sc_fit_in, sc_dumps, sc_first>>
    /\ UNCHANGED notSc

InitSc ==
    /\ sc_dir \in ScaleDirs
    /\ sc_input = sc_dir
    /\ sc_file \in {<<>>, <<SavedScaler>>}
    /\ sc_first = sc_file
    /\ scaler_maxabs = unfitted
    /\ sc_split = 1
    /\ sc_file_list = {}
    /\ sc_run = 1
    /\ sc_found_in = {}
    /\ sc_fit_in = {}
    /\ sc_dumps = 0
    /\ pc_sc = "start"

IdleSc ==
    /\ sc_dir = [sp \in Range(Splits) |-> {}]
    /\ sc_input = sc_dir
    /\ sc_file = <<>>
    /\ sc_first = <<>>
    /\ scaler_maxabs = unfitted
    /\ sc_split = 1
    /\ sc_file_list = {}
    /\ sc_run = 0
    /\ sc_found_in = {}
    /\ sc_fit_in = {}
    /\ sc_dumps = 0
    /\ pc_sc = "idle"

NextSc == ScLoad \/ ScFit \/ ScGlob \/ ScWorker \/ ScRaise \/ ScJoin \/ ScRerun

(* Claims about scale *)

\* the files of split sp the current run of scale has rewritten
ScHandled(sp) ==
    {f \in sc_input[sp] :
        /\ pc_sc \in {"glob", "map", "returned"}
        /\ \/ pc_sc = "returned"
           \/ \E k \in 1..Len(Splits) : Splits[k] = sp /\ k < sc_split
           \/ Splits[sc_split] = sp /\ pc_sc = "map" /\ f.name \notin sc_file_list}

\* C8: a run of scale that finds scaler.save neither fits nor saves a
\* scaler, a run that does not find it fits and saves one, and every file a
\* run rewrites is scaled with the saved parameters; over the runs the file
\* is written at most once and its content never changes
C8_ScalerFitOnce ==
    /\ sc_found_in \cap sc_fit_in = {}
    /\ pc_sc \notin {"start", "idle"} => sc_run \in sc_found_in \cup sc_fit_in
    /\ sc_dumps = Cardinality(sc_fit_in) /\ sc_dumps <= 1
    /\ sc_first # <<>> => sc_file = sc_first
    /\ pc_sc \in {"glob", "map", "returned", "error"} => scaler_maxabs = sc_file[1]
    /\ \A sp \in Range(Splits) : \A f \in ScHandled(sp) :
        FileNamed(sc_dir[sp], f.name).rows = scale_inner(sc_first[1], f.rows)

\* a later run on other train files has scaled a test file and a train file
\* with the parameters the first run fitted and saved
C8_Witness ==
    /\ pc_sc = "returned"
    /\ sc_fit_in = {1} /\ sc_run = MaxRuns /\ sc_run \in sc_found_in
    /\ sc_input["train"] # {} /\ sc_input["test"] # {}
    /\ partial_fit_all(sc_input["train"]) # sc_file[1]

-----------------------------------------------------------------------------
(* Two runs of the stages from remove_acc_outliers to scale (lines 943-948)
   on data directories that hold the same train files *)

Runs == {1, 2}

StatStages ==
    <<"remove_acc_outliers", "calc_vel_delta", "interpolate",
      "remove_vel_outliers", "remove_empty_rows", "scale">>

\* the stage is the next one of the run; the second run follows the first
StAt(run, stage) ==
    /\ ~st_error[run]
    /\ st_done[run] < Len(StatStages) /\ StatStages[st_done[run] + 1] = stage
    /\ run = 1 \/ st_error[1] \/ st_done[1] = Len(StatStages)

\* the stage returns and leaves the directory dir
StReturn(run, dir) ==
    /\ st_dir' = [st_dir EXCEPT ![run] = dir]
    /\ st_done' = [st_done EXCEPT ![run] = @ + 1]
    /\ UNCHANGED <<st_error, st_type, st_interval>>
    /\ UNCHANGED notSt

\* the stage raises and leaves the directory dir
StRaise(run, dir) ==
    /\ st_dir' = [st_dir EXCEPT ![run] = dir]
    /\ st_error' = [st_error EXCEPT ![run] = TRUE]
    /\ UNCHANGED <<st_done, st_type, st_interval>>
    /\ UNCHANGED notSt

without(dir, gone) == [sp \in DOMAIN dir |-> dir[sp] \ gone]

\* df[['acc']].dropna()
acc_rows(rows) == SelectSeq(rows, LAMBDA r : ~IsNaN(r.acc))

\* lines 150-158: the files without a value of acc, which are removed
acc_emptied(dir) == {f \in glob_train(dir) : acc_rows(f.rows) = <<>>}

\* lines 150-162: the values of acc of the other files
acc_l(dir) ==
    concatenate({[f EXCEPT !.rows = acc_rows(@)] :
                    f \in glob_train(dir) \ acc_emptied(dir)}, "acc")

\* lines 145-183; np.concatenate of an empty list raises
StAccOutliers(run) ==
    /\ StAt(run, "remove_acc_outliers")
    /\ LET dir == without(st_dir[run], acc_emptied(st_dir[run]))
           l == acc_l(st_dir[run])
           b == outlier_bounds(l, <<3, 2>>)
       IN  IF l = <<>>
           THEN StRaise(run, dir) /\ UNCHANGED <<st_acc, st_vel, st_scaler>>
           ELSE /\ st_acc' = [st_acc EXCEPT ![run] = <<b>>]
                /\ StReturn(run, [sp \in DOMAIN dir |->
                        {[f EXCEPT !.rows = remove_acc_outliers_inner(b.lower, b.upper, @)] :
                            f \in dir[sp]}])
                /\ UNCHANGED <<st_vel, st_scaler>>

\* lines 205-217
StVelDelta(run) ==
    /\ StAt(run, "calc_vel_delta")
    /\ StReturn(run, [sp \in DOMAIN st_dir[run] |->
            {[f EXCEPT !.rows = calc_vel_delta_inner(@)] : f \in st_dir[run][sp]}])
    /\ UNCHANGED <<st_acc, st_vel, st_scaler>>

\* what interpolate makes of one file
interpolated(type, interval, rows) ==
    IF type = "linear" THEN [error |-> FALSE, rows |-> linear_interpolate(rows)]
    ELSE IF type = "equidistant" THEN equidistant_interpolate(interval, rows)
    ELSE [error |-> FALSE, rows |-> rows]

\* lines 357-383: when a worker raises, pool.map raises once the pool has
\* handled what it could of the other files of the split
StInterpolate(run) ==
    /\ StAt(run, "interpolate")
    /\ LET dir == st_dir[run]
           all == glob_all(dir)
           failing == {f \in all : interpolated(st_type, st_interval, f.rows).error}
           rewritten(files) ==
               [sp \in DOMAIN dir |->
                   {IF f \in files
                    THEN [f EXCEPT !.rows = interpolated(st_type, st_interval, @).rows]
                    ELSE f : f \in dir[sp]}]
           bad == {k \in DOMAIN Splits : dir[Splits[k]] \cap failing # {}}
           earlier == UNION {dir[Splits[k]] : k \in 1..(SetMin(bad) - 1)}
       IN  IF failing = {}
           THEN StReturn(run, rewritten(all))
           ELSE \E some \in SUBSET (dir[Splits[SetMin(bad)]] \ failing) :
                    StRaise(run, rewritten(earlier \cup some))
    /\ UNCHANGED <<st_acc, st_vel, st_scaler>>

\* lines 417-426: the train files without a complete row, which are removed
vel_emptied(dir) == {f \in glob_train(dir) : dropna(f.rows) = <<>>}

\* lines 417-428: the values of a column in the complete rows of the others
vel_l(dir, col) ==
    concatenate({[f EXCEPT !.rows = dropna(@)] :
                    f \in glob_train(dir) \ vel_emptied(dir)}, col)

\* lines 409-451
StVelOutliers(run) ==
    /\ StAt(run, "remove_vel_outliers")
    /\ LET dir == without(st_dir[run], vel_emptied(st_dir[run]))
           lat == outlier_bounds(vel_l(st_dir[run], "lat"), <<3>>)
           lon == outlier_bounds(vel_l(st_dir[run], "lon"), <<3>>)
           lower == [lat |-> lat.lower, lon |-> lon.lower]
           upper == [lat |-> lat.upper, lon |-> lon.upper]
       IN  IF vel_l(st_dir[run], "lat") = <<>>
           THEN StRaise(run, dir) /\ UNCHANGED <<st_acc, st_vel, st_scaler>>
           ELSE /\ st_vel' = [st_vel EXCEPT ![run] = <<[lower |-> lower, upper |-> upper]>>]
                /\ StReturn(run, [sp \in DOMAIN dir |->
                        {[f EXCEPT !.rows = remove_vel_outliers_inner(lower, upper, @)] :
                            f \in dir[sp]}])
                /\ UNCHANGED <<st_acc, st_scaler>>

\* lines 468-480
StEmptyRows(run) ==
    /\ StAt(run, "remove_empty_rows")
    /\ StReturn(run, [sp \in DOMAIN st_dir[run] |->
            {[f EXCEPT !.rows = remove_empty_rows_inner(@)] :
                f \in {g \in st_dir[run][sp] : Len(remove_empty_rows_inner(g.rows)) # 0}}])
    /\ UNCHANGED <<st_acc, st_vel, st_scaler>>

\* lines 503-542 in a directory without scaler.save
StScale(run) ==
    /\ StAt(run, "scale")
    /\ LET dir == st_dir[run]
           scaler == partial_fit_all(glob_train(dir))
       IN  /\ st_scaler' = [st_scaler EXCEPT ![run] = <<scaler>>]
           /\ IF scaler.fitted \/ glob_all(dir) = {}
              THEN StReturn(run, [sp \in DOMAIN dir |->
                        {[f EXCEPT !.rows = scale_inner(scaler, @)] : f \in dir[sp]}])
              ELSE StRaise(run, dir)
    /\ UNCHANGED <<st_acc, st_vel>>

(* Inputs: ride files as the first three stages leave them *)

StMaxRows == 2

\* a sensor row without or with an incident, or a GPS row of good or of
\* poor accuracy
StatRow(t, kind) ==
    [timeStamp |-> t,
     lat |-> IF kind = "g" THEN Val(2 * t) ELSE IF kind = "h" THEN Val(5 * t + 1) ELSE NaN,
     lon |-> IF kind \in {"g", "h"} THEN Val(t) ELSE NaN,
     acc |-> IF kind = "g" THEN Val(t + 1) ELSE IF kind = "h" THEN Val(9) ELSE NaN,
     X |-> Val(t + 1),
     incident |-> IF kind = "i" THEN Val(2) ELSE Val(0)]

StatFiles(name) ==
    UNION {{[name |-> name, rows |-> [k \in 1..n |-> StatRow(k - 1, kinds[k])]] :
                kinds \in [1..n -> {"s", "i", "g", "h"}]} : n \in 1..StMaxRows}

StatLongFile(name) ==
    [name |-> name,
     rows |-> <<StatRow(0, "g"), StatRow(1, "g"), StatRow(2, "h"), StatRow(3, "g")>>]

StatPair(name, first, second) ==
    [name |-> name, rows |-> <<StatRow(0, first), StatRow(1, second)>>]

\* the train files of both runs
TrainSets ==
    {{}, {StatLongFile("VM2_1")},
     {StatLongFile("VM2_1"), StatPair("VM2_2", "g", "h")},
     {StatLongFile("VM2_1"), StatPair("VM2_2", "s", "i")},
     {StatPair("VM2_2", "g", "g")}, {StatPair("VM2_2", "i", "g")},
     {StatPair("VM2_2", "s", "s")}}

StatDirs ==
    {[r \in Runs |->
        [sp \in Range(Splits) |->
            IF sp = "train" THEN train
            ELSE IF r = 1 THEN (IF sp = "test" THEN {StatLongFile("VM2_3")} ELSE {})
            ELSE IF sp = "test" THEN test ELSE val]] :
        train \in TrainSets,
        test \in {{}} \cup {{f} : f \in StatFiles("VM2_3")},
        val \in {{}, {StatLongFile("VM2_4")}}}

InitSt ==
    /\ st_dir \in StatDirs
    /\ st_type \in InterpolationTypes
    /\ st_interval \in PlIntervals
    /\ st_type = "equidistant" \/ st_interval = 1
    /\ st_done = [r \in Runs |-> 0]
    /\ st_error = [r \in Runs |-> FALSE]
    /\ st_acc = [r \in Runs |-> <<>>]
    /\ st_vel = [r \in Runs |-> <<>>]
    /\ st_scaler = [r \in Runs |-> <<>>]

IdleSt ==
    /\ st_dir = [r \in Runs |-> [sp \in Range(Splits) |-> {}]]
    /\ st_type = ""
    /\ st_interval = 0
    /\ st_done = [r \in Runs |-> Len(StatStages)]
    /\ st_error = [r \in Runs |-> FALSE]
    /\ st_acc = [r \in Runs |-> <<>>]
    /\ st_vel = [r \in Runs |-> <<>>]
    /\ st_scaler = [r \in Runs |-> <<>>]

NextSt ==
    \/ \E run \in Runs : StAccOutliers(run)
    \/ \E run \in Runs : StVelDelta(run)
    \/ \E run \in Runs : StInterpolate(run)
    \/ \E run \in Runs : StVelOutliers(run)
    \/ \E run \in Runs : StEmptyRows(run)
    \/ \E run \in Runs : StScale(run)

(* Claims about the statistics *)

\* C7: two runs whose data directories hold the same train files and any
\* test and val files compute the same bounds of the GPS accuracy, the same
\* bounds of the velocity and the same parameters of a newly fitted scaler,
\* and their train files are the same after every stage
C7_TrainOnlyStatistics ==
    /\ (st_acc[1] # <<>> /\ st_acc[2] # <<>>) => st_acc[1] = st_acc[2]
    /\ (st_vel[1] # <<>> /\ st_vel[2] # <<>>) => st_vel[1] = st_vel[2]
    /\ (st_scaler[1] # <<>> /\ st_scaler[2] # <<>>) => st_scaler[1] = st_scaler[2]
    /\ (st_done[1] = st_done[2] /\ ~st_error[1] /\ ~st_error[2])
            => st_dir[1]["train"] = st_dir[2]["train"]

\* both runs have fitted a scaler, on directories whose test and val files
\* differ, with bounds that leave room between them
C7_Witness ==
    /\ \A r \in Runs : st_done[r] = Len(StatStages) /\ ~st_error[r]
    /\ st_dir[1]["test"] # st_dir[2]["test"]
    /\ st_dir[1]["val"] # st_dir[2]["val"]
    /\ st_dir[1]["train"] # {}
    /\ st_scaler[1][1].fitted
    /\ Less(st_acc[1][1].lower, st_acc[1][1].upper)
    /\ Less(st_vel[1][1].lower.lat, st_vel[1][1].upper.lat)

-----------------------------------------------------------------------------
(* Claims about linear_interpolate *)

\* the step of preprocess that resamples the file with linear_interpolate
LinearStep ==
    /\ PlAt("interpolate")
    /\ pl_type' = "linear"
    /\ pl_done' = pl_done + 1

\* the GPS samples of the file that drop_duplicates (line 238) keeps
GpsSamples(rows) ==
    {k \in DOMAIN rows :
        /\ ~IsNaN(rows[k].lat)
        /\ \A j \in 1..(k - 1) : rows[j].timeStamp # rows[k].timeStamp}

\* the first GPS sample of the file at or after the time t
NextSample(rows, t) ==
    LET later == {k \in GpsSamples(rows) : rows[k].timeStamp >= t}
    IN  IF later = {} THEN 0
        ELSE CHOOSE k \in later :
                \A j \in later : rows[k].timeStamp <= rows[j].timeStamp

\* C19 as stated: linear_interpolate fills lat and lon of every row of a
\* ride with a GPS sample, the rows before its first and behind its last
\* sample included
C19_PaddedBothDirections ==
    [][(LinearStep /\ GpsSamples(pl_rows) # {}) =>
        \A k \in DOMAIN pl_rows' :
            ~IsNaN(pl_rows'[k].lat) /\ ~IsNaN(pl_rows'[k].lon)]_vars

\* C19: linear_interpolate pads lat and lon on the time-reversed index only:
\* a row takes lat and lon of the first GPS sample at or after it, so the
\* gap before the first sample is filled, and a row behind the last GPS
\* sample keeps its empty lat and lon
C19_PaddedBackward ==
    [][LinearStep =>
        \A k \in DOMAIN pl_rows' :
            LET s == NextSample(pl_rows, pl_rows'[k].timeStamp)
            IN  IF s = 0
                THEN IsNaN(pl_rows'[k].lat) /\ IsNaN(pl_rows'[k].lon)
                ELSE /\ pl_rows'[k].lat = pl_rows[s].lat
                     /\ pl_rows'[k].lon = pl_rows[s].lon]_vars

\* a linearly resampled ride whose first row has taken the values of a later
\* GPS sample and whose last row, behind the last sample, has none
C19_Witness ==
    /\ pl_exists /\ pl_type = "linear" /\ pl_done = 6
    /\ Len(pl_rows) = 3
    /\ ~IsNaN(pl_rows[1].lat) /\ pl_rows[1].lat = pl_rows[2].lat
    /\ pl_rows[1].timeStamp < pl_rows[2].timeStamp
    /\ IsNaN(pl_rows[3].lat)
    /\ pl_rows[2].timeStamp < pl_rows[3].timeStamp

-----------------------------------------------------------------------------
(* Claims about an interpolation type that interpolate does not know *)

UnknownTypes == InterpolationTypes \ {"linear", "equidistant"}

\* C17 as stated: with an interpolation type that is neither 'linear' nor
\* 'equidistant', interpolate raises nothing and leaves the file as it is,
\* and from then on no later stage of preprocess runs on the file
C17_NothingDownstream ==
    [][/\ (PlAt("interpolate") /\ pl_type' \in UnknownTypes) =>
            (pl_rows' = pl_rows /\ pl_exists' /\ ~pl_error')
       /\ pl_type \in UnknownTypes => pl_done' = pl_done]_vars

-----------------------------------------------------------------------------
(* Claims about a ride with too long a timestamp gap *)

\* C20 as stated: a ride with a timestamp gap of more than 6000 ms halts the
\* pipeline: once remove_invalid_rides has met such a ride it does not
\* return to preprocess, which would go on with the next stage
C20_LongGapHalts ==
    (\E sp \in Range(Splits) : \E f \in IvHandled(sp) : LongGap(f.rows)) =>
        pc_iv # "returned"

\* C20: a ride with a timestamp gap of more than 6000 ms is deleted without
\* any error; remove_invalid_rides goes on, keeps every ride without such a
\* gap that has a complete row, and returns to preprocess
C20_LongGapDeleted ==
    /\ pc_iv \in {"glob", "map", "returned"}
    /\ \A sp \in Range(Splits) :
        /\ \A f \in IvHandled(sp) : LongGap(f.rows) => f \notin iv_dir[sp]
        /\ \A f \in iv_input[sp] :
            (~LongGap(f.rows) /\ CompleteRow(f.rows)) => f \in iv_dir[sp]

\* the stage has returned after deleting a ride with too long a gap, and a
\* ride of the same split is left for the next stage
C20_Witness ==
    /\ pc_iv = "returned"
    /\ \E sp \in Range(Splits) :
        /\ \E f \in iv_input[sp] : LongGap(f.rows) /\ f \notin iv_dir[sp]
        /\ iv_dir[sp] # {}

-----------------------------------------------------------------------------
(* rotate_bucket.  Here a bucket is an array of numbers: bucket[wi][si] is
   the sequence of the channels of one cell, the label last *)

None == <<>>

\* (variant: a rotation by 90 degrees around the X axis, whatever the axis)
R_quarter(axis) == <<<<1, 0, 0>>, <<0, 0, -1>>, <<0, 1, 0>>>>

\* lines 635-651: the matrix R of the axis, None for any other axis
R(axis) ==
    IF axis = 0 THEN <<<<1, 0, 0>>, <<0, -1, 0>>, <<0, 0, -1>>>>
    ELSE IF axis = 1 THEN <<<<-1, 0, 0>>, <<0, 1, 0>>, <<0, 0, -1>>>>
    ELSE IF axis = 2 THEN <<<<-1, 0, 0>>, <<0, -1, 0>>, <<0, 0, 1>>>>
    ELSE None

\* np.matmul of a vector of three channels with a 3 x 3 matrix
matmul(v, mat) ==
    [c \in 1..3 |-> v[1] * mat[1][c] + v[2] * mat[2][c] + v[3] * mat[3][c]]

\* lines 628-664
rotate_bucket(bucket, axis) ==
    IF R(axis) = None THEN None
    ELSE [wi \in DOMAIN bucket |->
            [si \in DOMAIN bucket[wi] |->
                LET cell == bucket[wi][si]
                    ride_image_acc == SubSeq(cell, 1, 3)
                    ride_image_gyro == SubSeq(cell, 4, 6)
                IN  matmul(ride_image_acc, R(axis))
                    \o matmul(ride_image_gyro, R(axis))
                    \o SubSeq(cell, 7, Len(cell))]]

\* the number of calls, and the largest sensor value of an input bucket
MaxRotations == 2
MaxValue == 1

\* one more call of rotate_bucket on the result of the last one
RtRotate ==
    /\ UNCHANGED notRt
    /\ Len(rt_trace) <= MaxRotations
    /\ rt_trace[Len(rt_trace)] # None
    /\ rt_trace' = Append(rt_trace, rotate_bucket(rt_trace[Len(rt_trace)], rt_axis))
    /\ UNCHANGED rt_axis

(* Inputs of rotate_bucket: buckets of one cell and of two by two cells, with
   9 channels (X, Y, Z, a, b, c, lat, lon, incident) or 12 (the linear
   accelerations before lat) *)

RotValues == (0 - MaxValue)..MaxValue
RotAcc == [1..3 -> RotValues]
RotGyro(acc) == {<<acc[3], acc[1], acc[2]>>, <<2, -3, 4>>}
RotTails == {<<5, 6, 1>>, <<7, 8, 9, 5, 6, 1>>}

RotCell(acc, gyro, tail, d) ==
    [c \in 1..3 |-> acc[c] + d] \o [c \in 1..3 |-> gyro[c] - d] \o tail

RotBuckets ==
    UNION {{ [wi \in 1..n |-> [si \in 1..n |->
                RotCell(acc, gyro, tail, 2 * (wi - 1) + (si - 1))]]
             : gyro \in RotGyro(acc), tail \in RotTails, n \in {1, 2} }
           : acc \in RotAcc}

InitRt ==
    /\ rt_axis \in 0..3
    /\ \E bucket \in RotBuckets : rt_trace = <<bucket>>

IdleRt ==
    /\ rt_axis = 0
    /\ rt_trace = <<>>

NextRt == RtRotate

(* Claims about rotate_bucket *)

\* C13: for each of the axes 0, 1, 2, rotate_bucket applied twice around the
\* axis gives back the bucket it started from, and one call leaves the shape
\* and the channels from index 6 on as they were
C13_RotateTwiceIsIdentity ==
    rt_axis \in {0, 1, 2} =>
        /\ \A k \in DOMAIN rt_trace :
            (k + 2) \in DOMAIN rt_trace => rt_trace[k + 2] = rt_trace[k]
        /\ \A k \in DOMAIN rt_trace : (k + 1) \in DOMAIN rt_trace =>
            /\ DOMAIN rt_trace[k + 1] = DOMAIN rt_trace[k]
            /\ \A wi \in DOMAIN rt_trace[k] :
                /\ DOMAIN rt_trace[k + 1][wi] = DOMAIN rt_trace[k][wi]
                /\ \A si \in DOMAIN rt_trace[k][wi] :
                    LET old == rt_trace[k][wi][si]
                        new == rt_trace[k + 1][wi][si]
                    IN  /\ Len(new) = Len(old)
                        /\ \A c \in 7..Len(old) : new[c] = old[c]

\* a bucket of 12 channels that one rotation around the axis 1 has changed
\* and the second one has restored
C13_Witness ==
    /\ rt_axis = 1
    /\ Len(rt_trace) >= 3
    /\ rt_trace[2] # rt_trace[1]
    /\ rt_trace[3] = rt_trace[1]
    /\ Len(rt_trace[1][1][1]) = 12

-----------------------------------------------------------------------------
(* remove_acc_outliers, remove_vel_outliers and scale, step by step: the loop
   over the train files, the statistic, then the pools of the three splits *)

BarrierStages == {"remove_acc_outliers", "remove_vel_outliers", "scale"}

\* (variant: the statistic is taken as soon as any file has been read)
prefix_done_early(todo) == TRUE

\* the first loop is over: every file of the glob has been read
prefix_done(todo) == todo = {}

\* lines 152-170, 417-441 and 523-531: the statistic of a stage over train
\* files, <<>> when np.concatenate raises
statistic(stage, files) ==
    LET dir == [train |-> files]
    IN  IF stage = "remove_acc_outliers"
        THEN IF acc_l(dir) = <<>> THEN <<>>
             ELSE <<outlier_bounds(acc_l(dir), <<3, 2>>)>>
        ELSE IF stage = "remove_vel_outliers"
        THEN IF vel_l(dir, "lat") = <<>> THEN <<>>
             ELSE LET lat == outlier_bounds(vel_l(dir, "lat"), <<3>>)
                      lon == outlier_bounds(vel_l(dir, "lon"), <<3>>)
                  IN  <<[lower |-> [lat |-> lat.lower, lon |-> lon.lower],
                         upper |-> [lat |-> lat.upper, lon |-> lon.upper]]>>
        ELSE <<partial_fit_all(files)>>

\* lines 156-158 and 423-426: the train file is removed while it is read
removed_when_read(stage, f) ==
    \/ stage = "remove_acc_outliers" /\ acc_rows(f.rows) = <<>>
    \/ stage = "remove_vel_outliers" /\ dropna(f.rows) = <<>>

\* lines 120-142, 386-406 and 483-500: what the worker writes back
worker_result(stage, value, rows) ==
    IF stage = "remove_acc_outliers"
    THEN remove_acc_outliers_inner(value.lower, value.upper, rows)
    ELSE IF stage = "remove_vel_outliers"
    THEN remove_vel_outliers_inner(value.lower, value.upper, rows)
    ELSE scale_inner(value, rows)

\* lines 517-518: scaler.save is there and is loaded
BrLoad ==
    /\ UNCHANGED notBr
    /\ pc_br = "start" /\ br_stage = "scale" /\ br_saved # <<>>
    /\ br_stat' = br_saved
    /\ br_loaded' = TRUE
    /\ pc_br' = "glob"
    /\ UNCHANGED <<br_stage, br_dir, br_input, br_saved, br_todo, br_l,
                   br_split, br_file_list, br_used>>

\* lines 155, 419 and 521: the glob of the train split
BrGlobTrain ==
    /\ UNCHANGED notBr
    /\ pc_br = "start" /\ (br_stage = "scale" => br_saved = <<>>)
    /\ br_todo' = br_dir["train"]
    /\ pc_br' = "prefix"
    /\ UNCHANGED <<br_stage, br_dir, br_input, br_saved, br_loaded, br_l,
                   br_stat, br_split, br_file_list, br_used>>

\* lines 155-162, 419-428 and 521-529: one pass of the first loop
BrRead ==
    /\ UNCHANGED notBr
    /\ pc_br = "prefix"
    /\ \E f \in br_todo :
        /\ br_todo' = br_todo \ {f}
        /\ br_l' = br_l \cup {f}
        /\ br_dir' = IF removed_when_read(br_stage, f)
                     THEN [br_dir EXCEPT !["train"] = @ \ {f}] ELSE br_dir
    /\ UNCHANGED <<br_stage, br_input, br_saved, br_loaded, br_stat, br_split,
                   br_file_list, br_used, pc_br>>

\* lines 162-170, 428-441 and 530-532: the statistic is there
BrFinalize ==
    /\ UNCHANGED notBr
    /\ pc_br = "prefix" /\ prefix_done(br_todo)
    /\ statistic(br_stage, br_l) # <<>>
    /\ br_stat' = statistic(br_stage, br_l)
    /\ br_saved' = IF br_stage = "scale" THEN br_stat' ELSE br_saved
    /\ pc_br' = "glob"
    /\ UNCHANGED <<br_stage, br_dir, br_input, br_loaded, br_todo, br_l,
                   br_split, br_file_list, br_used>>

\* lines 162 and 428: np.concatenate of an empty list raises
BrConcatRaise ==
    /\ UNCHANGED notBr
    /\ pc_br = "prefix" /\ prefix_done(br_todo)
    /\ statistic(br_stage, br_l) = <<>>
    /\ pc_br' = "error"
    /\ UNCHANGED <<br_stage, br_dir, br_input, br_saved, br_loaded, br_todo,
                   br_l, br_stat, br_split, br_file_list, br_used>>

\* lines 172-173, 443-444 and 534-535: the glob of the split
BrGlob ==
    /\ UNCHANGED notBr
    /\ pc_br = "glob"
    /\ br_file_list' = FileNames(br_dir[Splits[br_split]])
    /\ pc_br' = "map"
    /\ UNCHANGED <<br_stage, br_dir, br_input, br_saved, br_loaded, br_todo,
                   br_l, br_stat, br_split, br_used>>

\* lines 175-176, 445-446 and 537-538: one worker of the pool rewrites one
\* file with the value bound by partial(...)
BrWorker ==
    /\ UNCHANGED notBr
    /\ pc_br = "map"
    /\ br_stage = "scale" => br_stat[1].fitted
    /\ \E name \in br_file_list :
        LET sp == Splits[br_split]
            f == FileNamed(br_dir[sp], name)
        IN  /\ br_dir' = [br_dir EXCEPT ![sp] = (@ \ {f}) \cup
                    {[f EXCEPT !.rows = worker_result(br_stage, br_stat[1], @)]}]
            /\ br_used' = br_used \cup
                    {[split |-> sp, name |-> name, value |-> br_stat]}
            /\ br_file_list' = br_file_list \ {name}
    /\ UNCHANGED <<br_stage, br_input, br_saved, br_loaded, br_todo, br_l,
                   br_stat, br_split, pc_br>>

\* line 494: transform of a scaler that was never fitted raises
BrWorkerRaise ==
    /\ UNCHANGED notBr
    /\ pc_br = "map" /\ br_file_list # {}
    /\ br_stage = "scale" /\ ~br_stat[1].fitted
    /\ pc_br' = "error"
    /\ UNCHANGED <<br_stage, br_dir, br_input, br_saved, br_loaded, br_todo,
                   br_l, br_stat, br_split, br_file_list, br_used>>

\* the pool is joined; the next split, or the stage returns
BrJoin ==
    /\ UNCHANGED notBr
    /\ pc_br = "map" /\ br_file_list = {}
    /\ br_split' = br_split + 1
    /\ pc_br' = IF br_split = Len(Splits) THEN "returned" ELSE "glob"
    /\ UNCHANGED <<br_stage, br_dir, br_input, br_saved, br_loaded, br_todo,
                   br_l, br_stat, br_file_list, br_used>>

(* Inputs: ride files of one row, as the stage before leaves them *)

BrMaxFiles == 2
BrMaxValue == 3

\* a row with the value v in acc (remove_acc_outliers only), lat and X; the
\* value 0 stands for a row without acc, or without lat and lon
BrRow(stage, v) ==
    LET gps == IF v # 0 \/ stage = "scale" THEN Val(v) ELSE NaN
        row == [timeStamp |-> 0, lat |-> gps, lon |-> gps, X |-> Val(1),
                incident |-> Val(0)]
    IN  IF stage = "remove_acc_outliers"
        THEN [c \in DOMAIN row \cup {"acc"} |->
                IF c = "acc" THEN (IF v = 0 THEN NaN ELSE Val(v))
                ELSE IF c \in {"lat", "lon"} THEN Val(1) ELSE row[c]]
        ELSE row

BrFile(stage, name, v) == [name |-> name, rows |-> <<BrRow(stage, v)>>]

BrTrainDirs(stage) ==
    UNION {{ {BrFile(stage, <<"VM2", n>>, val[n]) : n \in 1..k}
             : val \in [1..k -> 0..BrMaxValue] } : k \in 0..BrMaxFiles}

BrDirs(stage) ==
    {[sp \in Range(Splits) |->
        IF sp = "train" THEN tr
        ELSE IF sp = "test" THEN {BrFile(stage, <<"VM2", 0>>, v)} ELSE {}]
     : tr \in BrTrainDirs(stage), v \in 0..BrMaxValue}

InitBr ==
    /\ br_stage \in BarrierStages
    /\ br_dir \in BrDirs(br_stage)
    /\ br_input = br_dir
    /\ br_saved \in {<<>>} \cup
          (IF br_stage = "scale"
           THEN {<<partial_fit_all({BrFile("scale", <<"VM2", 1>>, 2)})>>}
           ELSE {})
    /\ br_loaded = FALSE
    /\ br_todo = {}
    /\ br_l = {}
    /\ br_stat = <<>>
    /\ br_split = 1
    /\ br_file_list = {}
    /\ br_used = {}
    /\ pc_br = "start"

IdleBr ==
    /\ br_stage = ""
    /\ br_dir = [sp \in Range(Splits) |-> {}]
    /\ br_input = br_dir
    /\ br_saved = <<>>
    /\ br_loaded = FALSE
    /\ br_todo = {}
    /\ br_l = {}
    /\ br_stat = <<>>
    /\ br_split = 1
    /\ br_file_list = {}
    /\ br_used = {}
    /\ pc_br = "idle"

NextBr ==
    \/ BrLoad \/ BrGlobTrain \/ BrRead \/ BrFinalize \/ BrConcatRaise
    \/ BrGlob \/ BrWorker \/ BrWorkerRaise \/ BrJoin

(* Claims about the statistic and the workers *)

\* C16: in remove_acc_outliers, remove_vel_outliers and scale no worker
\* rewrites a file before the bounds or the scaler are there, computed from
\* all the train files the stage found (or loaded from scaler.save), and
\* every worker is given that one value
C16_FitThenApply ==
    LET final ==
            statistic(br_stage, br_input["train"])
    IN  /\ pc_br \in {"start", "prefix"} => br_used = {}
        /\ br_used # {} =>
             /\ br_todo = {}
             /\ ~br_loaded => br_l = br_input["train"]
        /\ \A u \in br_used :
             /\ u.value = br_stat
             /\ u.value = IF br_loaded THEN br_saved ELSE final

\* remove_vel_outliers has returned: two train files with different values
\* were read, and the workers of the train and of the test split were given
\* the bounds of both
C16_Witness ==
    /\ pc_br = "returned" /\ br_stage = "remove_vel_outliers"
    /\ Cardinality(br_input["train"]) = 2
    /\ statistic(br_stage, br_input["train"]) # <<>>
    /\ \A f \in br_input["train"] :
            statistic(br_stage, {f}) # statistic(br_stage, br_input["train"])
    /\ \E u \in br_used : u.split = "train"
    /\ \E u \in br_used : u.split = "test"

(* Claims about the accuracy-outlier filter *)

\* the bounds C26 names: Q25 - 1.5 * IQR and Q75 + 1.5 * IQR of the train
\* accuracies
StatedAccBounds ==
    LET arr == acc_l([train |-> br_input["train"]])
        q25 == percentile(arr, 1)
        q75 == percentile(arr, 3)
        iqr == RSub(q75, q25)
    IN  [lower |-> RSub(q25, RMul(<<3, 2>>, iqr)),
         upper |-> RAdd(q75, RMul(<<3, 2>>, iqr))]

\* the file of the split as the stage found it
AccBefore(sp, name) == FileNamed(br_input[sp], name)

\* C26: a file that a worker of remove_acc_outliers has rewritten has the
\* rows it had, without the column acc; lat and lon are empty in exactly the
\* rows whose acc was strictly below the lower or strictly above the upper
\* bound of the train accuracies, and are as before in the rows with acc
\* inside the bounds or without acc; every other column is as before.  A
\* file no worker has handled yet is as the stage found it, and when the
\* stage has returned every file of every split has been handled.
C26_AccuracyOutliers ==
    br_stage = "remove_acc_outliers" =>
        \A sp \in Range(Splits) :
            \A f \in br_dir[sp] :
                LET old == AccBefore(sp, f.name).rows
                    handled == \E u \in br_used :
                                    u.split = sp /\ u.name = f.name
                    beyond(r) ==
                        /\ ~IsNaN(r.acc)
                        /\ \/ Less(r.acc, StatedAccBounds.lower)
                           \/ Less(StatedAccBounds.upper, r.acc)
                IN  /\ ~handled => f.rows = old
                    /\ pc_br = "returned" => handled
                    /\ handled =>
                        /\ Len(f.rows) = Len(old)
                        /\ \A k \in DOMAIN old :
                            /\ DOMAIN f.rows[k] = DOMAIN old[k] \ {"acc"}
                            /\ \A c \in DOMAIN f.rows[k] \ {"lat", "lon"} :
                                f.rows[k][c] = old[k][c]
                            /\ \A c \in {"lat", "lon"} :
                                f.rows[k][c] =
                                    IF beyond(old[k]) THEN NaN ELSE old[k][c]

\* C26 witness: the stage has returned; a test row above the upper bound
\* lost lat and lon, and a train row whose acc is the upper bound itself
\* kept them
C26_Witness ==
    /\ br_stage = "remove_acc_outliers" /\ pc_br = "returned"
    /\ \E f \in br_dir["test"] :
        /\ IsNaN(f.rows[1].lat) /\ IsNaN(f.rows[1].lon)
        /\ Less(StatedAccBounds.upper, AccBefore("test", f.name).rows[1].acc)
    /\ \E f \in br_dir["train"] :
        /\ ~IsNaN(f.rows[1].lat)
        /\ ~Less(AccBefore("train", f.name).rows[1].acc, StatedAccBounds.upper)
        /\ ~Less(StatedAccBounds.upper, AccBefore("train", f.name).rows[1].acc)

-----------------------------------------------------------------------------
(* augment_data and fourier_transform.  An archive written with
   in_memory_flag is [arr_0 |-> the sequence of the buckets]; an addressable
   one is [files |-> the sequence of its <<key, bucket>> pairs] in the order
   np.savez was given them.  A bucket is an array of numbers as for
   rotate_bucket *)

dict_keys(d) == {d[k][1] : k \in DOMAIN d}
dict_get(d, key) == d[CHOOSE k \in DOMAIN d : d[k][1] = key][2]

\* d.update(e) for a dictionary e: a key of d takes the value of e in its
\* place, a new key comes behind in the order of e
dict_update(d, e) ==
    [k \in DOMAIN d |->
        IF d[k][1] \in dict_keys(e) THEN <<d[k][1], dict_get(e, d[k][1])>>
        ELSE d[k]]
    \o SelectSeq(e, LAMBDA x : x[1] \notin dict_keys(d))

RECURSIVE Flatten(_)
Flatten(ss) == IF ss = <<>> THEN <<>> ELSE Head(ss) \o Flatten(Tail(ss))

\* (variant: every section has Len(keys) \div n keys, the rest is left out)
array_split_even(keys, n) ==
    [k \in 1..n |->
        SubSeq(keys, (k - 1) * (Len(keys) \div n) + 1, k * (Len(keys) \div n))]

\* np.array_split(keys, n): n sections in order, the first Len(keys) % n of
\* them one key longer
array_split(keys, n) ==
    LET q == Len(keys) \div n
        r == Len(keys) % n
        start(k) == (k - 1) * q + (IF k - 1 < r THEN k - 1 ELSE r)
    IN  [k \in 1..n |-> SubSeq(keys, start(k) + 1, start(k + 1))]

\* np.any(ride_image[:, :, -1]) > 0
positive(bucket) ==
    \E wi \in DOMAIN bucket : \E si \in DOMAIN bucket[wi] :
        bucket[wi][si][Len(bucket[wi][si])] # 0

\* lines 689-691: the keys of the three rotations of a bucket
dict_name_rotated(file, letter) ==
    [file |-> file.file, no |-> file.no, incident |-> TRUE, rotated |-> letter]

\* lines 682-701: what augment_data_inner adds for one key
inner_entries(data_loaded, rotation_flag, file) ==
    LET ride_image == dict_get(data_loaded, file)
    IN  IF rotation_flag /\ positive(ride_image)
        THEN << <<file, ride_image>>,
                <<dict_name_rotated(file, "X"), rotate_bucket(ride_image, 0)>>,
                <<dict_name_rotated(file, "Y"), rotate_bucket(ride_image, 1)>>,
                <<dict_name_rotated(file, "Z"), rotate_bucket(ride_image, 2)>> >>
        ELSE << <<file, ride_image>> >>

\* lines 667-703: the dictionary and the pos_counter of one shard
augment_data_inner(data_loaded, rotation_flag, files) ==
    LET ride_data_dict ==
            Flatten([k \in DOMAIN files |->
                        inner_entries(data_loaded, rotation_flag, files[k])])
    IN  [ride_data_dict |-> ride_data_dict,
         pos_counter |-> Len(ride_data_dict) - Len(files)]

\* lines 734-748: ride_images_list, the buckets and behind them the three
\* rotations of every positive one
ride_images_list(data) ==
    data \o Flatten([k \in DOMAIN data |->
                IF positive(data[k])
                THEN <<rotate_bucket(data[k], 0), rotate_bucket(data[k], 1),
                       rotate_bucket(data[k], 2)>>
                ELSE <<>>])

\* the counts create_ds(..., 'train', count=True, class_counts_file=...)
\* returns: the pair of the split in the ledger
create_ds(counts, sp) == counts[column(sp)]

\* (variant: the tenth is rounded to the nearest integer)
num_examples_rounded(pos, neg) == (neg - pos + 5) \div 10

\* lines 769 and 812: int((neg_counter - pos_counter) * 0.1); int() cuts
\* off towards zero
num_examples_to_generate(pos, neg) ==
    IF neg >= pos THEN (neg - pos) \div 10 ELSE 0 - ((pos - neg) \div 10)

\* generator(tf.random.normal([count, latent_dim])): count buckets of the
\* shape of the buckets without their label channel
generator(count, like) ==
    [n \in 1..count |->
        [wi \in DOMAIN like |-> [si \in DOMAIN like[wi] |->
            [c \in 1..(Len(like[wi][si]) - 1) |-> 0 - n]]]]

\* lines 771 and 816: tf.concat([b, tf.ones_like(b)[:, :, :, :1]], axis=3)
append_ones(buckets) ==
    [n \in DOMAIN buckets |->
        [wi \in DOMAIN buckets[n] |-> [si \in DOMAIN buckets[n][wi] |->
            Append(buckets[n][wi][si], 1)]]]

\* lines 818-819: the keys of the generated buckets
generated_dict(buckets) ==
    [n \in DOMAIN buckets |-> <<[generated |-> n - 1], buckets[n]>>]

\* tf.random.shuffle(data) with the permutation drawn
shuffle(data, perm) ==
    IF perm = "reverse" THEN Reverse(data)
    ELSE IF perm = "rotate" /\ data # <<>> THEN Tail(data) \o <<Head(data)>>
    ELSE data

\* tf.cast(data, tf.float32): the values of the model's buckets are small
\* integers, which float32 holds exactly
cast_float32(data) == data

RECURSIVE SumSeq(_)
SumSeq(s) == IF s = <<>> THEN 0 ELSE Head(s) + SumSeq(Tail(s))

\* real and imaginary part of exp(-2 pi i e / 4)
twiddle_real(e) == <<1, 0, -1, 0>>[(e % 4) + 1]
twiddle_imag(e) == <<0, -1, 0, 1>>[(e % 4) + 1]

\* np.fft.fft of a sequence of 1, 2 or 4 real numbers: the parts of its
\* k-th coefficient (0-based)
fft_real(xs, k) ==
    SumSeq([j \in DOMAIN xs |->
                xs[j] * twiddle_real((j - 1) * k * (4 \div Len(xs)))])
fft_imag(xs, k) ==
    SumSeq([j \in DOMAIN xs |->
                xs[j] * twiddle_imag((j - 1) * k * (4 \div Len(xs)))])

\* (variant: the GPS channels are put before the imaginary parts)
concatenate_gps_first(real, imag, gps, label) == real \o gps \o imag \o label

\* lines 855-856 and 890: np.concatenate((real, imag, gps, label)) along the
\* channel axis, for one cell
concatenate_channels(real, imag, gps, label) == real \o imag \o gps \o label

\* lines 846-856: the transform of one bucket along its axis 0
fourier_bucket(ride_data) ==
    [wi \in DOMAIN ride_data |-> [si \in DOMAIN ride_data[wi] |->
        LET cell == ride_data[wi][si]
            C == Len(cell)
            label == SubSeq(cell, C, C)
            gps == SubSeq(cell, C - 2, C - 1)
            along(c) == [j \in DOMAIN ride_data |-> ride_data[j][si][c]]
            real == [c \in 1..(C - 3) |-> fft_real(along(c), wi - 1)]
            imag == [c \in 1..(C - 3) |-> fft_imag(along(c), wi - 1)]
        IN  concatenate_channels(real, imag, gps, label)]]

\* np.fft.fft(data, axis=axis) of an array of four axes (bucket, window,
\* slice, channel), as its parts at the position <<b, wi, si, c>>: the
\* coefficient is taken over the values met along the axis, at the index
\* the position has on the axis
along_axis(data, axis, b, wi, si, c) ==
    IF axis = 0 THEN [j \in DOMAIN data |-> data[j][wi][si][c]]
    ELSE IF axis = 1 THEN [j \in DOMAIN data[b] |-> data[b][j][si][c]]
    ELSE [j \in DOMAIN data[b][wi] |-> data[b][wi][j][c]]

index_on_axis(axis, b, wi, si) == <<b, wi, si>>[axis + 1] - 1

\* lines 883-890 with the transform along the given axis of data
fourier_stacked(data, axis) ==
    [b \in DOMAIN data |-> [wi \in DOMAIN data[b] |->
        [si \in DOMAIN data[b][wi] |->
            LET cell == data[b][wi][si]
                C == Len(cell)
                label == SubSeq(cell, C, C)
                gps == SubSeq(cell, C - 2, C - 1)
                at == index_on_axis(axis, b, wi, si)
                real == [c \in 1..(C - 3) |->
                    fft_real(along_axis(data, axis, b, wi, si, c), at)]
                imag == [c \in 1..(C - 3) |->
                    fft_imag(along_axis(data, axis, b, wi, si, c), at)]
            IN  concatenate_channels(real, imag, gps, label)]]]

\* (variant: np.fft.fft(..., axis=2), along the slices)
fourier_along_slices(data) == fourier_stacked(data, 2)

\* lines 881-890: arr_0 is transformed along its axis 1
fourier_in_memory(data) == fourier_stacked(data, 1)

\* lines 833-860: the dictionary of one shard
fourier_transform_off_memory(data_loaded, files) ==
    [k \in DOMAIN files |->
        <<files[k], fourier_bucket(dict_get(data_loaded, files[k]))>>]

ar_sp == Splits[ar_split]
ar_keys(a) == [k \in DOMAIN a.files |-> a.files[k][1]]

\* lines 788-790 and 900-902: the results of the shards, merged in order
RECURSIVE merged(_)
merged(results) ==
    IF results = <<>> THEN <<>>
    ELSE dict_update(merged(SubSeq(results, 1, Len(results) - 1)),
                     results[Len(results)])

ArUnchangedParams ==
    UNCHANGED <<ar_stage, ar_in_memory, ar_rotation, ar_gan, ar_fourier,
                ar_cpu, ar_shuffle, ar_input>>

\* augment_data with the write of lines 777 and 827-828 outside the test of
\* line 724: the train archive and the ledger are saved again when both
\* flags are off
ArSkipSaves ==
    /\ UNCHANGED notAr
    /\ pc_ar = "start"
    /\ \/ ar_stage = "augment_data" /\ ~ar_rotation /\ ~ar_gan
       \/ ar_stage = "fourier_transform" /\ ~ar_fourier
    /\ pc_ar' = "returned"
    /\ ArUnchangedParams
    /\ ar_writes' = [ar_writes EXCEPT !["train"] = @ + 1]
    /\ UNCHANGED <<ar_archive, ar_counts, ar_split, ar_splits, ar_results,
                   ar_dict, ar_pos, ar_neg>>

\* line 724 with both flags off, line 873 with the flag off: nothing to do
ArSkip ==
    /\ UNCHANGED notAr
    /\ pc_ar = "start"
    /\ \/ ar_stage = "augment_data" /\ ~ar_rotation /\ ~ar_gan
       \/ ar_stage = "fourier_transform" /\ ~ar_fourier
    /\ pc_ar' = "returned"
    /\ ArUnchangedParams
    /\ UNCHANGED <<ar_archive, ar_counts, ar_split, ar_splits, ar_results,
                   ar_dict, ar_pos, ar_neg, ar_writes>>

\* what augment_data works out with in_memory_flag (lines 726-775): the
\* array to save and the counters, or an error
au_in_memory ==
    LET loaded == ar_archive["train"].arr_0
        read == ar_counts[column("train")]
        rotated == IF ar_rotation
                   THEN Len(ride_images_list(loaded)) - Len(loaded) ELSE 0
        ds == create_ds(ar_counts, "train")
        num == num_examples_to_generate(ds[1], ds[2])
    IN  IF ~ar_gan
        THEN [error |-> FALSE, data |-> loaded,
              pos |-> read[1] + rotated, neg |-> read[2]]
        ELSE IF num < 0
        THEN [error |-> TRUE]
        ELSE [error |-> FALSE,
              data |-> shuffle(cast_float32(loaded)
                               \o append_ones(generator(num, loaded[1])),
                               ar_shuffle),
              pos |-> ds[1] + num, neg |-> ds[2]]

\* what augment_data works out without in_memory_flag once the pool has
\* returned (lines 788-823)
au_addressable ==
    LET loaded == ar_archive["train"].files
        read == ar_counts[column("train")]
        locals == [k \in DOMAIN ar_results |-> ar_results[k][1].pos_counter]
        dicts == [k \in DOMAIN ar_results |-> ar_results[k][1].ride_data_dict]
        ds == create_ds(ar_counts, "train")
        num == num_examples_to_generate(ds[1], ds[2])
    IN  IF ~ar_gan
        THEN [error |-> FALSE, dict |-> merged(dicts),
              pos |-> read[1] + SumSeq(locals), neg |-> read[2]]
        ELSE IF num < 0
        THEN [error |-> TRUE]
        ELSE [error |-> FALSE,
              dict |-> dict_update(merged(dicts),
                          generated_dict(append_ones(generator(num, loaded[1][2])))),
              pos |-> ds[1] + num, neg |-> ds[2]]

\* lines 724-777 and 827-828: augment_data with in_memory_flag
AuInMemory ==
    /\ UNCHANGED notAr
    /\ pc_ar = "start" /\ ar_stage = "augment_data"
    /\ ar_rotation \/ ar_gan
    /\ ar_in_memory /\ ~au_in_memory.error
    /\ ar_archive' = [ar_archive EXCEPT !["train"] = [arr_0 |-> au_in_memory.data]]
    /\ ar_writes' = [ar_writes EXCEPT !["train"] = @ + 1]
    /\ ar_pos' = au_in_memory.pos
    /\ ar_neg' = au_in_memory.neg
    /\ ar_counts' = [ar_counts EXCEPT ![column("train")] = <<ar_pos', ar_neg'>>]
    /\ pc_ar' = "returned"
    /\ ArUnchangedParams
    /\ UNCHANGED <<ar_split, ar_splits, ar_results, ar_dict>>

\* line 770 or 813: tf.random.normal of a negative number of rows raises
AuRaise ==
    /\ UNCHANGED notAr
    /\ ar_stage = "augment_data" /\ ar_gan
    /\ \/ pc_ar = "start" /\ ar_in_memory /\ au_in_memory.error
       \/ /\ pc_ar = "workers" /\ \A k \in DOMAIN ar_results : ar_results[k] # <<>>
          /\ au_addressable.error
    /\ pc_ar' = "error"
    /\ ArUnchangedParams
    /\ UNCHANGED <<ar_archive, ar_counts, ar_split, ar_splits, ar_results,
                   ar_dict, ar_pos, ar_neg, ar_writes>>

\* lines 726-728 and 781-783 (augment_data), 894-895 (fourier_transform):
\* the archive is loaded and its keys are cut into shards
ArSplit ==
    /\ UNCHANGED notAr
    /\ pc_ar = "start" /\ ~ar_in_memory
    /\ \/ ar_stage = "augment_data" /\ (ar_rotation \/ ar_gan)
       \/ ar_stage = "fourier_transform" /\ ar_fourier
    /\ ar_splits' = array_split(ar_keys(ar_archive[ar_sp]), ar_cpu)
    /\ ar_results' = [k \in 1..ar_cpu |-> <<>>]
    /\ ar_dict' = <<>>
    /\ IF ar_stage = "augment_data"
       THEN /\ ar_pos' = ar_counts[column("train")][1]
            /\ ar_neg' = ar_counts[column("train")][2]
       ELSE UNCHANGED <<ar_pos, ar_neg>>
    /\ pc_ar' = "workers"
    /\ ArUnchangedParams
    /\ UNCHANGED <<ar_archive, ar_counts, ar_split, ar_writes>>

\* lines 785-786 and 897-899: one worker of the pool handles one shard
ArWorker ==
    /\ UNCHANGED notAr
    /\ pc_ar = "workers"
    /\ \E k \in DOMAIN ar_results :
        /\ ar_results[k] = <<>>
        /\ ar_results' = [ar_results EXCEPT ![k] =
            IF ar_stage = "augment_data"
            THEN <<augment_data_inner(ar_archive[ar_sp].files, ar_rotation,
                                      ar_splits[k])>>
            ELSE <<fourier_transform_off_memory(ar_archive[ar_sp].files,
                                                ar_splits[k])>>]
    /\ ArUnchangedParams
    /\ UNCHANGED <<ar_archive, ar_counts, ar_split, ar_splits, ar_dict,
                   ar_pos, ar_neg, ar_writes, pc_ar>>

\* lines 788-828: the results are merged, the generated buckets are added,
\* the archive and the ledger are written
AuMerge ==
    /\ UNCHANGED notAr
    /\ pc_ar = "workers" /\ ar_stage = "augment_data"
    /\ \A k \in DOMAIN ar_results : ar_results[k] # <<>>
    /\ ~au_addressable.error
    /\ ar_dict' = au_addressable.dict
    /\ ar_archive' = [ar_archive EXCEPT !["train"] = [files |-> ar_dict']]
    /\ ar_writes' = [ar_writes EXCEPT !["train"] = @ + 1]
    /\ ar_pos' = au_addressable.pos
    /\ ar_neg' = au_addressable.neg
    /\ ar_counts' = [ar_counts EXCEPT ![column("train")] = <<ar_pos', ar_neg'>>]
    /\ pc_ar' = "returned"
    /\ ArUnchangedParams
    /\ UNCHANGED <<ar_split, ar_splits, ar_results>>

\* the for loop of fourier_transform goes on with the next split
FtNextSplit ==
    /\ ar_split' = IF ar_split < Len(Splits) THEN ar_split + 1 ELSE ar_split
    /\ pc_ar' = IF ar_split < Len(Splits) THEN "start" ELSE "returned"

\* lines 879-890 and 904-905: one split with in_memory_flag
FtInMemory ==
    /\ UNCHANGED notAr
    /\ pc_ar = "start" /\ ar_stage = "fourier_transform" /\ ar_fourier
    /\ ar_in_memory /\ ar_archive[ar_sp].arr_0 # <<>>
    /\ ar_archive' = [ar_archive EXCEPT ![ar_sp] =
            [arr_0 |-> fourier_in_memory(@.arr_0)]]
    /\ ar_writes' = [ar_writes EXCEPT ![ar_sp] = @ + 1]
    /\ FtNextSplit
    /\ ArUnchangedParams
    /\ UNCHANGED <<ar_counts, ar_splits, ar_results, ar_dict, ar_pos, ar_neg>>

\* line 883: arr_0 of a split without buckets has one axis; the index with
\* four raises
FtRaise ==
    /\ UNCHANGED notAr
    /\ pc_ar = "start" /\ ar_stage = "fourier_transform" /\ ar_fourier
    /\ ar_in_memory /\ ar_archive[ar_sp].arr_0 = <<>>
    /\ pc_ar' = "error"
    /\ ArUnchangedParams
    /\ UNCHANGED <<ar_archive, ar_counts, ar_split, ar_splits, ar_results,
                   ar_dict, ar_pos, ar_neg, ar_writes>>

\* lines 900-907: the results are merged and the archive is written
FtSave ==
    /\ UNCHANGED notAr
    /\ pc_ar = "workers" /\ ar_stage = "fourier_transform"
    /\ \A k \in DOMAIN ar_results : ar_results[k] # <<>>
    /\ ar_dict' = merged([k \in DOMAIN ar_results |-> ar_results[k][1]])
    /\ ar_archive' = [ar_archive EXCEPT ![ar_sp] = [files |-> ar_dict']]
    /\ ar_writes' = [ar_writes EXCEPT ![ar_sp] = @ + 1]
    /\ FtNextSplit
    /\ ArUnchangedParams
    /\ UNCHANGED <<ar_counts, ar_splits, ar_results, ar_pos, ar_neg>>

(* Inputs: archives and a ledger as create_buckets leaves them *)

MaxPos == 2
MaxNeg == 12
MaxCpu == 3
FtMaxBuckets == 2
\* a train split with this many positive buckets and no other
ManyPos == 10

\* a bucket of one cell and 9 channels for augment_data
AuBucket(j, label) == << << <<j, 1, -1, 2, 0, 1, 5, 6, label>> >> >>

\* a bucket of w x s cells and ch channels for fourier_transform
FtBucket(j, w, s, ch) ==
    [wi \in 1..w |-> [si \in 1..s |->
        [c \in 1..ch |->
            IF c = ch THEN j % 2 ELSE ((j + wi * c + si) % 5) - 2]]]

\* the archive create_buckets writes for the buckets of the file name
ArArchive(in_memory, name, buckets) ==
    IF in_memory THEN [arr_0 |-> buckets]
    ELSE [files |-> [k \in DOMAIN buckets |->
                        <<dict_name(name, k - 1, positive(buckets[k])),
                          buckets[k]>>]]

ArBuckets(a) ==
    IF "arr_0" \in DOMAIN a THEN a.arr_0
    ELSE [k \in DOMAIN a.files |-> a.files[k][2]]

\* the numbers of the buckets of an archive with and without a label
ArLabelCounts(a) ==
    LET b == ArBuckets(a)
        pos == Cardinality({k \in DOMAIN b : positive(b[k])})
    IN  <<pos, Len(b) - pos>>

AuTrain ==
    ({[k \in 1..(p + n) |-> AuBucket(k, IF k <= p THEN 1 ELSE 0)] :
        p \in 0..MaxPos, n \in 0..MaxNeg} \ {<<>>})
    \cup {[k \in 1..ManyPos |-> AuBucket(k, 1)]}

FtArchives ==
    UNION {{ [train |-> [k \in 1..nt |-> FtBucket(k, w, s, ch)],
              test |-> <<FtBucket(3, w, s, ch)>>,
              val |-> [k \in 1..nv |-> FtBucket(4, w, s, ch)]]
             : nv \in 0..1, w \in {1, 2, 4}, s \in {1, 2}, ch \in {9, 12} }
           : nt \in 0..FtMaxBuckets}

InitAr ==
    /\ ar_stage \in {"augment_data", "fourier_transform"}
    /\ ar_in_memory \in BOOLEAN
    /\ ar_rotation \in IF ar_stage = "augment_data" THEN BOOLEAN ELSE {FALSE}
    /\ ar_gan \in IF ar_stage = "augment_data" THEN BOOLEAN ELSE {FALSE}
    /\ ar_fourier \in IF ar_stage = "fourier_transform" THEN BOOLEAN ELSE {FALSE}
    /\ ar_cpu \in IF ar_in_memory THEN {1} ELSE 1..MaxCpu
    /\ ar_shuffle \in IF ar_in_memory /\ ar_gan
                      THEN {"keep", "reverse", "rotate"} ELSE {"keep"}
    /\ \E b \in IF ar_stage = "augment_data"
                THEN {[train |-> t, test |-> <<AuBucket(1, 0)>>, val |-> <<>>] :
                        t \in AuTrain}
                ELSE FtArchives :
        ar_archive = [sp \in Range(Splits) |->
                        ArArchive(ar_in_memory, "VM2_1", b[sp])]
    /\ ar_input = ar_archive
    /\ ar_counts = [c \in {column(sp) : sp \in Range(Splits)} |->
                      ArLabelCounts(ar_archive[c[1]])]
    /\ ar_split = 1
    /\ ar_splits = <<>>
    /\ ar_results = <<>>
    /\ ar_dict = <<>>
    /\ ar_pos = 0
    /\ ar_neg = 0
    /\ ar_writes = [sp \in Range(Splits) |-> 0]
    /\ pc_ar = "start"

IdleAr ==
    /\ ar_stage = ""
    /\ ar_in_memory = FALSE
    /\ ar_rotation = FALSE
    /\ ar_gan = FALSE
    /\ ar_fourier = FALSE
    /\ ar_cpu = 1
    /\ ar_shuffle = "keep"
    /\ ar_archive = [sp \in Range(Splits) |-> <<>>]
    /\ ar_input = ar_archive
    /\ ar_counts = <<>>
    /\ ar_split = 1
    /\ ar_splits = <<>>
    /\ ar_results = <<>>
    /\ ar_dict = <<>>
    /\ ar_pos = 0
    /\ ar_neg = 0
    /\ ar_writes = [sp \in Range(Splits) |-> 0]
    /\ pc_ar = "idle"

NextAr ==
    \/ ArSkip \/ AuInMemory \/ AuRaise \/ ArSplit \/ ArWorker \/ AuMerge
    \/ FtInMemory \/ FtRaise \/ FtSave

(* Claims about augment_data and fourier_transform *)

ArBefore(sp) == ArBuckets(ar_input[sp])
ArAfter(sp) == ArBuckets(ar_archive[sp])

\* C11 as stated: when create_buckets has completed and when augment_data
\* has completed, whatever the flags, the pair of every split in the ledger
\* is the number of buckets with label 1 and with label 0 in the archive
\* of the split
C11_LedgerMatchesArchive ==
    (ar_stage = "augment_data" /\ pc_ar \in {"start", "returned"}) =>
        \A sp \in Range(Splits) :
            ar_counts[column(sp)] = ArLabelCounts(ar_archive[sp])

\* C12 as stated: with rotation_flag, in either output mode, the train
\* archive that augment_data leaves holds every bucket it held before and,
\* for every positive one, its rotations around the axes 0, 1 and 2
C12_RotationsStored ==
    (ar_stage = "augment_data" /\ pc_ar = "returned" /\ ar_rotation) =>
        \A k \in DOMAIN ArBefore("train") :
            LET bucket == ArBefore("train")[k]
            IN  /\ bucket \in Range(ArAfter("train"))
                /\ positive(bucket) =>
                     \A axis \in 0..2 :
                         rotate_bucket(bucket, axis) \in Range(ArAfter("train"))

\* the buckets of the train archive that are neither a bucket it held
\* before nor a rotation of one
Synthetic ==
    {k \in DOMAIN ArAfter("train") :
        \A b \in Range(ArBefore("train")) :
            /\ ArAfter("train")[k] # b
            /\ \A axis \in 0..2 : ArAfter("train")[k] # rotate_bucket(b, axis)}

\* C14: with gan_flag, when augment_data has completed the ledger's positive
\* count of the train split has grown by the tenth of (neg - pos), cut off
\* to an integer, its negative count is as it was, the train archive holds
\* that many synthetic buckets, and the last channel of every cell of a
\* synthetic bucket is 1
C14_SyntheticCount ==
    (ar_stage = "augment_data" /\ pc_ar = "returned" /\ ar_gan) =>
        LET read == ArLabelCounts(ar_input["train"])
            d == read[2] - read[1]
            num == ar_counts[column("train")][1] - read[1]
        IN  /\ num >= 0
            /\ IF d >= 0 THEN 10 * num <= d /\ d < 10 * num + 10
               ELSE num = 0 /\ d > -10
            /\ ar_counts[column("train")][2] = read[2]
            /\ Cardinality(Synthetic) = num
            /\ \A k \in Synthetic :
                LET bucket == ArAfter("train")[k]
                IN  \A wi \in DOMAIN bucket : \A si \in DOMAIN bucket[wi] :
                        bucket[wi][si][Len(bucket[wi][si])] = 1

\* augment_data has completed with gan_flag on a train split of 1 positive
\* and 12 negative buckets: one synthetic bucket is stored
C14_Witness ==
    /\ ar_stage = "augment_data" /\ pc_ar = "returned" /\ ar_gan
    /\ ArLabelCounts(ar_input["train"]) = <<1, 12>>
    /\ Cardinality(Synthetic) = 1
    /\ ar_counts[column("train")] = <<2, 12>>

\* C15: a bucket of C channels leaves fourier_transform with 2 * (C - 3) + 3
\* channels: the real parts of the transform of the first C - 3 channels
\* along the axis 0, their imaginary parts, then the two GPS channels and the
\* label channel, cell for cell as they were
C15_FourierLayout ==
    (ar_stage = "fourier_transform" /\ ar_fourier) =>
        \A sp \in Range(Splits) : ar_writes[sp] = 1 =>
            /\ Len(ArAfter(sp)) = Len(ArBefore(sp))
            /\ \A k \in DOMAIN ArBefore(sp) :
                LET old == ArBefore(sp)[k]
                    new == ArAfter(sp)[k]
                IN  /\ DOMAIN new = DOMAIN old
                    /\ \A wi \in DOMAIN old :
                        /\ DOMAIN new[wi] = DOMAIN old[wi]
                        /\ \A si \in DOMAIN old[wi] :
                            LET C == Len(old[wi][si])
                                along(c) == [j \in DOMAIN old |-> old[j][si][c]]
                            IN  /\ Len(new[wi][si]) = 2 * (C - 3) + 3
                                /\ \A c \in 1..(C - 3) :
                                    /\ new[wi][si][c] = fft_real(along(c), wi - 1)
                                    /\ new[wi][si][C - 3 + c] = fft_imag(along(c), wi - 1)
                                /\ \A c \in 0..2 :
                                    new[wi][si][2 * (C - 3) + 3 - c] = old[wi][si][C - c]

\* fourier_transform has returned; a train bucket of window size 4 and 12
\* channels has a coefficient with an imaginary part
C15_Witness ==
    /\ ar_stage = "fourier_transform" /\ ar_fourier /\ pc_ar = "returned"
    /\ Len(ArBefore("train")) >= 1
    /\ Len(ArBefore("train")[1]) = 4
    /\ Len(ArBefore("train")[1][1][1]) = 12
    /\ \E c \in 10..18 : ArAfter("train")[1][2][1][c] # 0
    /\ ArAfter("train")[1][2][1][19] = ArBefore("train")[1][2][1][10]

\* the splits whose archive the stage rewrites
ArHandled ==
    IF ar_stage = "augment_data" THEN {"train"} ELSE Range(Splits)

\* C18: without in_memory_flag, augment_data and fourier_transform cut the
\* keys of the archive into shards that hold every key once; while the
\* workers handle the shards the archive stays as it was and is not written;
\* it is written once per split, when the results of all shards are merged,
\* and then holds every key it held before
C18_ShardedRewrite ==
    (~ar_in_memory /\ ar_stage # "" /\ (ar_rotation \/ ar_gan \/ ar_fourier)) =>
        /\ pc_ar = "workers" =>
             /\ Flatten(ar_splits) = ar_keys(ar_input[ar_sp])
             /\ Cardinality(dict_keys(ar_input[ar_sp].files))
                    = Len(ar_input[ar_sp].files)
             /\ ar_archive[ar_sp] = ar_input[ar_sp]
             /\ ar_writes[ar_sp] = 0
        /\ \A sp \in Range(Splits) :
             /\ ar_writes[sp] <= 1
             /\ ar_writes[sp] = 1 =>
                  /\ dict_keys(ar_input[sp].files) \subseteq dict_keys(ar_archive[sp].files)
                  /\ sp \in ArHandled
             /\ ar_writes[sp] = 0 => ar_archive[sp] = ar_input[sp]
        /\ pc_ar = "returned" => \A sp \in ArHandled : ar_writes[sp] = 1

\* augment_data has returned with rotation_flag after two workers handled
\* shards of two keys and of one key
C18_Witness ==
    /\ ~ar_in_memory /\ ar_stage = "augment_data" /\ ar_rotation
    /\ pc_ar = "returned"
    /\ Len(ar_splits) = 2
    /\ Len(ar_splits[1]) = 2 /\ Len(ar_splits[2]) = 1
    /\ ar_writes["train"] = 1
    /\ Len(ar_archive["train"].files) > 3

(* Claims about the frame of augment_data *)

\* the splits augment_data has no business with
AuOtherSplits == Range(Splits) \ {"train"}

\* C28: augment_data rewrites only the train archive and only the train
\* column of the ledger: the test and val archives are never saved and stay
\* as they were, their ledger columns keep the pair they held, and with
\* rotation_flag and gan_flag both off nothing is saved at all, the train
\* archive and the whole ledger stay as they were
C28_AugmenterFrame ==
    ar_stage = "augment_data" =>
        /\ \A sp \in AuOtherSplits :
            /\ ar_writes[sp] = 0
            /\ ar_archive[sp] = ar_input[sp]
            /\ ar_counts[column(sp)] = ArLabelCounts(ar_input[sp])
        /\ (~ar_rotation /\ ~ar_gan) =>
            /\ ar_writes["train"] = 0
            /\ ar_archive = ar_input
            /\ ar_counts[column("train")] = ArLabelCounts(ar_input["train"])
        /\ ar_writes["train"] <= 1

\* augment_data has returned after it rewrote the train archive and the
\* train column, next to a test archive that holds a bucket
C28_Witness ==
    /\ ar_stage = "augment_data" /\ pc_ar = "returned"
    /\ ar_rotation
    /\ ar_writes["train"] = 1
    /\ ar_archive["train"] # ar_input["train"]
    /\ ar_counts[column("train")] # ArLabelCounts(ar_input["train"])
    /\ ArBefore("test") # <<>>

(* Claims about the two output modes of fourier_transform *)

\* C27: whichever output mode fourier_transform ran in, the buckets it wrote
\* are those the other mode makes of the same buckets: an in-memory archive
\* holds, bucket for bucket, what fourier_transform_off_memory computes for
\* one keyed bucket along its axis 0, and an addressable archive holds what
\* the transform of the stacked buckets along axis 1 computes
C27_OutputModesAgree ==
    (ar_stage = "fourier_transform" /\ ar_fourier) =>
        \A sp \in Range(Splits) :
            (ar_writes[sp] = 1 /\ ArBefore(sp) # <<>>) =>
                IF ar_in_memory
                THEN ArAfter(sp) =
                        [k \in DOMAIN ArBefore(sp) |->
                            fourier_bucket(ArBefore(sp)[k])]
                ELSE ArAfter(sp) = fourier_in_memory(ArBefore(sp))

\* C27 witness: fourier_transform has returned in the in-memory mode on a
\* train split of two buckets of 4 windows and 2 slices, which it changed
C27_Witness ==
    /\ ar_stage = "fourier_transform" /\ ar_fourier /\ pc_ar = "returned"
    /\ ar_in_memory
    /\ Len(ArBefore("train")) = 2
    /\ Len(ArBefore("train")[1]) = 4
    /\ Len(ArBefore("train")[1][1]) = 2
    /\ ArAfter("train")[1] # ArAfter("train")[2]
    /\ \E wi \in 1..4 : \E si \in 1..2 :
        ArAfter("train")[2][wi][si] # ArBefore("train")[2][wi][si]

(* One ride from remove_vel_outliers to create_buckets (lines 945-949 of
   preprocess) after interpolate with the equidistant strategy.  The bounds
   of the velocity and the scaler depend on the train split: they are any
   of a few values.  The file is long enough for the bucketizer to cut 60
   rows off at either end. *)

CnStages ==
    <<"remove_vel_outliers", "remove_empty_rows", "scale", "create_buckets">>

CnAt(stage) == cn_done < Len(CnStages) /\ CnStages[cn_done + 1] = stage

\* the bounds remove_vel_outliers computes (lines 430-441): wide ones, and
\* narrow ones that a jump of the GPS fix exceeds
CnVelBounds ==
    {[lower |-> [lat |-> Val(-100), lon |-> Val(-100)],
      upper |-> [lat |-> Val(100), lon |-> Val(100)]],
     [lower |-> [lat |-> Val(0), lon |-> Val(0)],
      upper |-> [lat |-> Val(2), lon |-> Val(2)]]}

\* lines 443-446 and 386-406: the worker of the file
CnVelOutliers ==
    /\ UNCHANGED notCn
    /\ CnAt("remove_vel_outliers")
    /\ \E b \in CnVelBounds :
        cn_rows' = remove_vel_outliers_inner(b.lower, b.upper, cn_rows)
    /\ cn_done' = cn_done + 1
    /\ UNCHANGED <<cn_interval, cn_window, cn_slices, cn_grid, cn_times,
                   cn_buckets>>

\* lines 454-465; the file keeps rows
CnEmptyRows ==
    /\ UNCHANGED notCn
    /\ CnAt("remove_empty_rows")
    /\ Len(remove_empty_rows_inner(cn_rows)) # 0
    /\ cn_rows' = remove_empty_rows_inner(cn_rows)
    /\ cn_done' = cn_done + 1
    /\ UNCHANGED <<cn_interval, cn_window, cn_slices, cn_grid, cn_times,
                   cn_buckets>>

\* lines 483-500: the worker of the file; the column timeStamp goes
CnScale ==
    /\ UNCHANGED notCn
    /\ CnAt("scale")
    /\ cn_times' = [k \in DOMAIN cn_rows |-> cn_rows[k].timeStamp]
    /\ \E scaler \in Scalers : cn_rows' = scale_inner(scaler, cn_rows)
    /\ cn_done' = cn_done + 1
    /\ UNCHANGED <<cn_interval, cn_window, cn_slices, cn_grid, cn_buckets>>

\* the file as np.genfromtxt reads it: row r stands for its feature cells
cn_csv ==
    [name |-> "VM2_1", n |-> Len(cn_rows),
     inc |-> {k - 1 : k \in {k \in DOMAIN cn_rows : Positive(cn_rows[k].incident)}},
     flag |-> 1]

\* lines 566-606 for the file
CnBuckets ==
    /\ UNCHANGED notCn
    /\ CnAt("create_buckets")
    /\ ~one_dimensional(cn_csv)
    /\ cn_buckets' = file_buckets(cn_csv, cn_window, cn_slices)
    /\ cn_done' = cn_done + 1
    /\ UNCHANGED <<cn_interval, cn_window, cn_slices, cn_rows, cn_grid,
                   cn_times>>

(* Inputs: a ride as equidistant_interpolate leaves it, a row at every grid
   timestamp *)

\* the file has 2 * Trim + 2 rows or up to this many more than 2 * Trim
CnExtraRows == 5

CnRowCounts == {2 * Trim + k : k \in 2..CnExtraRows}

\* the rows that are not as the others: none; the first one, before the
\* first sensor value; the last one, after the last GPS fix; or a jump at a
\* row cut off at the head, at one of the first rows kept, or at the last row
CnSpecials(n) ==
    {<<0, "none">>, <<1, "no sensor">>, <<n, "no fix">>, <<n, "jump">>}
    \cup {<<p + 1, "jump">> : p \in {Trim \div 2, Trim, Trim + 1}}

CnRow(k, start, interval, special) ==
    \* the velocity: 1 at steady speed, 9 at a jump of the GPS fix
    LET v == IF special = <<k, "jump">> THEN Val(9)
             ELSE IF special = <<k, "no fix">> THEN NaN
             ELSE Val(1)
    IN  [timeStamp |-> start + (k - 1) * interval, lat |-> v, lon |-> v,
         X |-> IF special = <<k, "no sensor">> THEN NaN ELSE Val(1),
         incident |-> IF k = Trim + 2 THEN Val(1) ELSE Val(0)]

InitCn ==
    /\ cn_window \in WindowSizes
    /\ cn_slices \in SliceCounts
    /\ cn_interval \in TimeIntervals
    /\ \E n \in CnRowCounts, start \in {0, cn_interval} :
        \E special \in CnSpecials(n) :
            cn_rows = [k \in 1..n |-> CnRow(k, start, cn_interval, special)]
    /\ cn_done = 0
    /\ cn_grid = [k \in DOMAIN cn_rows |-> cn_rows[k].timeStamp]
    /\ cn_times = <<>>
    /\ cn_buckets = <<>>

IdleCn ==
    /\ cn_interval = 0
    /\ cn_window = 0
    /\ cn_slices = 0
    /\ cn_rows = <<>>
    /\ cn_done = 0
    /\ cn_grid = <<>>
    /\ cn_times = <<>>
    /\ cn_buckets = <<>>

NextCn == CnVelOutliers \/ CnEmptyRows \/ CnScale \/ CnBuckets

(* Claims about the rows of a bucket *)

\* the timestamps of the rows a bucket was built from
BucketTimes(bucket) == {cn_times[c.X[2] + 1] : c \in Cells(bucket)}

\* C23: with the equidistant strategy the window_size * slices rows of
\* every bucket are consecutive grid timestamps, exactly time_interval
\* apart: no row between the first and the last one was removed by the
\* velocity-outlier filter or by the row cleaner
C23_BucketsContiguous ==
    cn_done = Len(CnStages) =>
        \A b \in DOMAIN cn_buckets :
            LET times == BucketTimes(cn_buckets[b])
                first == SetMin(times)
            IN  /\ times \subseteq Range(cn_grid)
                /\ times = {first + k * cn_interval :
                                k \in 0..(cn_window * cn_slices - 1)}

(* The pools of preprocess (lines 939-948): every stage up to scale runs,
   for each split in turn, pool.map(worker, file_list) inside
   "with mp.Pool(mp.cpu_count()) as pool"; remove_acc_outliers and
   remove_vel_outliers first read the train files in the parent process.
   A ride file is its name here: what a worker writes is the subject of
   the other sections. *)

\* the stages whose first loop removes train files (lines 157 and 425)
ParentRemoves == {"remove_acc_outliers", "remove_vel_outliers"}

\* the stages whose worker may remove its file (lines 62 and 465)
WorkerRemoves == {"remove_invalid_rides", "remove_empty_rows"}

\* the stage whose worker may raise (line 336)
WorkerRaises == {"interpolate"}

wr_name == Stages[wr_stage]
wr_sp == Splits[wr_split]
Workers == 1..wr_cpu

\* where a stage starts
stage_entry(stage) == IF stage \in ParentRemoves THEN "prefix" ELSE "glob"

\* (variant: pool.map_async, which returns once the tasks are handed out)
map_async_returns(tasks, writing) == tasks = {}

\* pool.map returns when every task has been given to a worker and every
\* worker has returned from its task
pool_map_returns(tasks, writing) ==
    tasks = {} /\ \A w \in DOMAIN writing : writing[w] = None

\* lines 155-158 and 419-426: the parent removes train files
WrPrefix ==
    /\ UNCHANGED notWr
    /\ pc_wr = "prefix"
    /\ \E gone \in SUBSET wr_dir["train"] :
        wr_dir' = [wr_dir EXCEPT !["train"] = @ \ gone]
    /\ pc_wr' = "glob"
    /\ UNCHANGED <<wr_cpu, wr_stage, wr_split, wr_tasks, wr_writing, wr_given,
                   wr_failed>>

\* lines 39-41: the glob of the split and a new pool
WrGlob ==
    /\ UNCHANGED notWr
    /\ pc_wr = "glob"
    /\ wr_tasks' = wr_dir[wr_sp]
    /\ wr_given' = [f \in wr_dir[wr_sp] |-> {}]
    /\ wr_writing' = [w \in Workers |-> None]
    /\ pc_wr' = "map"
    /\ UNCHANGED <<wr_cpu, wr_dir, wr_stage, wr_split, wr_failed>>

\* line 42: a free worker of the pool is given the next file
WrTake(w) ==
    /\ UNCHANGED notWr
    /\ pc_wr = "map" /\ wr_writing[w] = None
    /\ \E f \in wr_tasks :
        /\ wr_tasks' = wr_tasks \ {f}
        /\ wr_writing' = [wr_writing EXCEPT ![w] = f]
        /\ wr_given' = [wr_given EXCEPT ![f] = @ \cup {w}]
    /\ UNCHANGED <<wr_cpu, wr_dir, wr_stage, wr_split, wr_failed, pc_wr>>

\* the worker returns: it has rewritten its file or removed it
WrFinish(w) ==
    /\ UNCHANGED notWr
    /\ pc_wr = "map" /\ wr_writing[w] # None
    /\ \/ UNCHANGED wr_dir
       \/ /\ wr_name \in WorkerRemoves
          /\ wr_dir' = [wr_dir EXCEPT ![wr_sp] = @ \ {wr_writing[w]}]
    /\ wr_writing' = [wr_writing EXCEPT ![w] = None]
    /\ UNCHANGED <<wr_cpu, wr_stage, wr_split, wr_tasks, wr_given, wr_failed,
                   pc_wr>>

\* the worker raises and leaves its file
WrRaise(w) ==
    /\ UNCHANGED notWr
    /\ pc_wr = "map" /\ wr_writing[w] # None
    /\ wr_name \in WorkerRaises
    /\ wr_failed' = TRUE
    /\ wr_writing' = [wr_writing EXCEPT ![w] = None]
    /\ UNCHANGED <<wr_cpu, wr_dir, wr_stage, wr_split, wr_tasks, wr_given,
                   pc_wr>>

\* pool.map raises while tasks are left or run: leaving the with block
\* terminates the pool and preprocess ends with the exception
WrTerminate ==
    /\ UNCHANGED notWr
    /\ pc_wr = "map" /\ wr_failed
    /\ wr_writing' = [w \in Workers |-> None]
    /\ pc_wr' = "error"
    /\ UNCHANGED <<wr_cpu, wr_dir, wr_stage, wr_split, wr_tasks, wr_given,
                   wr_failed>>

\* pool.map returns: the next split, the next stage, or the end
WrJoin ==
    /\ UNCHANGED notWr
    /\ pc_wr = "map" /\ ~wr_failed
    /\ pool_map_returns(wr_tasks, wr_writing)
    /\ IF wr_split < Len(Splits)
       THEN /\ wr_split' = wr_split + 1
            /\ pc_wr' = "glob"
            /\ UNCHANGED wr_stage
       ELSE IF wr_stage < Len(Stages)
       THEN /\ wr_stage' = wr_stage + 1
            /\ wr_split' = 1
            /\ pc_wr' = stage_entry(Stages[wr_stage + 1])
       ELSE /\ pc_wr' = "done"
            /\ UNCHANGED <<wr_stage, wr_split>>
    /\ UNCHANGED <<wr_cpu, wr_dir, wr_tasks, wr_writing, wr_given, wr_failed>>

(* Inputs: the ride files of the three splits *)

WrMaxCpu == 2
WrMaxFiles == 2

WrFiles(sp, n) == {<<sp, k>> : k \in 1..n}

InitWr ==
    /\ wr_cpu \in 1..WrMaxCpu
    /\ \E nt \in 0..WrMaxFiles, nv \in 0..1 :
        wr_dir = [sp \in Range(Splits) |->
                    WrFiles(sp, IF sp = "train" THEN nt
                                ELSE IF sp = "test" THEN 1 ELSE nv)]
    /\ wr_stage = 1
    /\ wr_split = 1
    /\ wr_tasks = {}
    /\ wr_writing = [w \in Workers |-> None]
    /\ wr_given = <<>>
    /\ wr_failed = FALSE
    /\ pc_wr = stage_entry(Stages[1])

IdleWr ==
    /\ wr_cpu = 0
    /\ wr_dir = [sp \in Range(Splits) |-> {}]
    /\ wr_stage = 0
    /\ wr_split = 0
    /\ wr_tasks = {}
    /\ wr_writing = <<>>
    /\ wr_given = <<>>
    /\ wr_failed = FALSE
    /\ pc_wr = "idle"

NextWr ==
    \/ WrPrefix \/ WrGlob \/ WrJoin \/ WrTerminate
    \/ \E w \in Workers : WrTake(w)
    \/ \E w \in Workers : WrFinish(w)
    \/ \E w \in Workers : WrRaise(w)

(* Claims about the writers of a ride file *)

\* the workers that work on the file f
WritersOf(f) == {w \in DOMAIN wr_writing : wr_writing[w] = f}

\* C21: at every point of a run, a ride file is worked on by at most one
\* worker; a file of the split's file_list has been given to at most one
\* worker, and to exactly one when pool.map has returned; a worker only
\* works on a file of the split and stage that run, so that when a split or
\* a stage starts no worker of an earlier one is left
C21_NoConcurrentWriters ==
    /\ \A sp \in Range(Splits) : \A f \in wr_dir[sp] :
        Cardinality(WritersOf(f)) <= 1
    /\ pc_wr = "map" =>
        /\ \A f \in DOMAIN wr_given :
            /\ Cardinality(wr_given[f]) <= 1
            /\ f \in wr_tasks <=> wr_given[f] = {}
            /\ f[1] = wr_sp
        /\ \A w \in DOMAIN wr_writing :
            wr_writing[w] # None =>
                /\ wr_writing[w] \in DOMAIN wr_given
                /\ wr_given[wr_writing[w]] = {w}
    /\ pc_wr \in {"prefix", "glob", "done", "error"} =>
        /\ \A w \in DOMAIN wr_writing : wr_writing[w] = None
        /\ pc_wr # "error" =>
            \A f \in DOMAIN wr_given : Cardinality(wr_given[f]) = 1

\* C21 witness: the pool of a later stage has two workers at work on the two
\* files of the train split
C21_Witness ==
    /\ pc_wr = "map" /\ wr_stage > 1 /\ wr_sp = "train"
    /\ Cardinality(DOMAIN wr_given) = 2
    /\ \A w \in DOMAIN wr_writing : wr_writing[w] # None
    /\ Cardinality({wr_writing[w] : w \in DOMAIN wr_writing}) = 2

-----------------------------------------------------------------------------
(* Specifications: one stage runs, the others rest *)

InitResample ==
    InitEq /\ IdleBk /\ IdleIv /\ IdlePl /\ IdleSc /\ IdleSt /\ IdleRt /\
    IdleBr /\ IdleAr /\ IdleCn /\ IdleWr

SpecResample == InitResample /\ [][NextEq]_vars

InitBuckets ==
    InitBk /\ IdleEq /\ IdleIv /\ IdlePl /\ IdleSc /\ IdleSt /\ IdleRt /\
    IdleBr /\ IdleAr /\ IdleCn /\ IdleWr

SpecBuckets == InitBuckets /\ [][NextBk]_vars

InitFilter ==
    InitIv /\ IdleEq /\ IdleBk /\ IdlePl /\ IdleSc /\ IdleSt /\ IdleRt /\
    IdleBr /\ IdleAr /\ IdleCn /\ IdleWr

SpecFilter == InitFilter /\ [][NextIv]_vars

InitPipeline ==
    InitPl /\ IdleEq /\ IdleBk /\ IdleIv /\ IdleSc /\ IdleSt /\ IdleRt /\
    IdleBr /\ IdleAr /\ IdleCn /\ IdleWr

SpecPipeline == InitPipeline /\ [][NextPl]_vars

InitScale ==
    InitSc /\ IdleEq /\ IdleBk /\ IdleIv /\ IdlePl /\ IdleSt /\ IdleRt /\
    IdleBr /\ IdleAr /\ IdleCn /\ IdleWr

SpecScale == InitScale /\ [][NextSc]_vars

InitStats ==
    InitSt /\ IdleEq /\ IdleBk /\ IdleIv /\ IdlePl /\ IdleSc /\ IdleRt /\
    IdleBr /\ IdleAr /\ IdleCn /\ IdleWr

SpecStats == InitStats /\ [][NextSt]_vars

InitRotate ==
    InitRt /\ IdleEq /\ IdleBk /\ IdleIv /\ IdlePl /\ IdleSc /\ IdleSt /\
    IdleBr /\ IdleAr /\ IdleCn /\ IdleWr

SpecRotate == InitRotate /\ [][NextRt]_vars

InitBarrier ==
    InitBr /\ IdleEq /\ IdleBk /\ IdleIv /\ IdlePl /\ IdleSc /\ IdleSt /\
    IdleRt /\ IdleAr /\ IdleCn /\ IdleWr

SpecBarrier == InitBarrier /\ [][NextBr]_vars

InitArchive ==
    InitAr /\ IdleEq /\ IdleBk /\ IdleIv /\ IdlePl /\ IdleSc /\ IdleSt /\
    IdleRt /\ IdleBr /\ IdleCn /\ IdleWr

SpecArchive == InitArchive /\ [][NextAr]_vars

InitContiguity ==
    InitCn /\ IdleEq /\ IdleBk /\ IdleIv /\ IdlePl /\ IdleSc /\ IdleSt /\
    IdleRt /\ IdleBr /\ IdleAr /\ IdleWr

SpecContiguity == InitContiguity /\ [][NextCn]_vars

InitWriters ==
    InitWr /\ IdleEq /\ IdleBk /\ IdleIv /\ IdlePl /\ IdleSc /\ IdleSt /\
    IdleRt /\ IdleBr /\ IdleAr /\ IdleCn

SpecWriters == InitWriters /\ [][NextWr]_vars

====
